---------------------------- MODULE Spec2Model ----------------------------
(***************************************************************************)
(* Model of cores of the node:                                             *)
(*   A. the trie prefetch staging area (core/store/src/trie/               *)
(*      prefetching_trie_storage.rs) shared by I/O workers and the main    *)
(*      thread;                                                            *)
(*   B. the validator accounts-data cache (chain/network/src/              *)
(*      accounts_data/mod.rs);                                             *)
(*   E. the runtime parameter table and its diffs (core/primitives/src/    *)
(*      runtime/parameter_table.rs).                                       *)
(* Each core has its own specification over its own variables.             *)
(***************************************************************************)
EXTENDS Integers, Sequences, FiniteSets, TLC

(***************************************************************************)
(* A. PREFETCH STAGING AREA                                                *)
(***************************************************************************)

\* Number of distinct content hashes the threads ask for.
NumHashes == 2

\* The staging limit counted in reservation quanta.  The source sets
\* 200 MiB = 50 quanta; the model keeps the quantum and scales the count.
StagingQuanta == 1

PREFETCH_RESERVED_BYTES_PER_SLOT == 4 * 1024 * 1024

MAX_PREFETCH_STAGING_MEMORY == StagingQuanta * PREFETCH_RESERVED_BYTES_PER_SLOT

Hashes == 1 .. NumHashes

Workers == {"w1", "w2"}

MainThread == "main"

Threads == Workers \cup {MainThread}

NoThread == "none"

\* Arc<[u8]>: the content (identified by the hash it is stored under) and
\* its length.  NoBytes stands for Option::None.
NoBytes == [id |-> 0, len |-> 0]

\* How many of the hashes the backing store may have no record for.
MaxMissing == 1

\* Lengths of the values the State column holds: a small node and a value of
\* max_length_storage_value bytes (the quantum).
ValueLens == {1, PREFETCH_RESERVED_BYTES_PER_SLOT}

\* The value stored under hash h: odd hashes are small nodes, even hashes
\* values of the largest size.
StoredBytes(h) ==
    [id |-> h, len |-> IF h % 2 = 1 THEN 1 ELSE PREFETCH_RESERVED_BYTES_PER_SLOT]

Bytes == [id : Hashes, len : ValueLens]

\* enum PrefetchSlot, with "Absent" for a key that is not in the map.
NoSlot == [kind |-> "Absent", value |-> NoBytes]

PendingPrefetch == [kind |-> "PendingPrefetch", value |-> NoBytes]

PendingFetch == [kind |-> "PendingFetch", value |-> NoBytes]

Done(b) == [kind |-> "Done", value |-> b]

VARIABLES
    store,              \* DBCol::State: hash -> bytes, NoBytes when missing
    shard_cache,        \* TrieCache: hash -> bytes, NoBytes when not cached
    shard_cache_guard,  \* holder of the shard cache mutex (lock S)
    slots,              \* InnerPrefetchStagingArea.slots
    size_bytes,         \* InnerPrefetchStagingArea.size_bytes
    pc,                 \* position of each thread in retrieve_raw_bytes
    hash,               \* the hash a thread retrieves
    prefetch_state,     \* the PrefetcherResult a thread got
    value,              \* the bytes a thread holds
    result              \* what the thread's last retrieve_raw_bytes returned

prefetchVars ==
    <<store, shard_cache, shard_cache_guard, slots, size_bytes, pc, hash,
      prefetch_state, value, result>>

\* Variables of the accounts-data cache (part B).
VARIABLES
    inner,              \* the published CacheSnapshot
    call,               \* the insert calls in flight
    max_accepted,       \* history: highest version stored per key since its
                        \* entry was last dropped by set_keys
    loaded              \* the Arc<CacheSnapshot> a reader got from load()

accountsVars == <<inner, call, max_accepted, loaded>>

\* Variables of the I/O worker pool (PrefetchApi).
VARIABLES
    work_queue,         \* PrefetchApi.work_queue, oldest first
    stop_io,            \* PrefetchApi.stop_io
    io_pc,              \* position of each I/O thread in its loop
    walk_left,          \* nodes the current trie walk of a thread may still read
    pushed              \* what the last prefetch_trie_key returned

poolVars == <<work_queue, stop_io, io_pc, walk_left, pushed>>

\* Variables of the lock-level view of retrieve_raw_bytes.
VARIABLES
    staging_guard,      \* holder of the staging area mutex (lock P)
    cache_guard,        \* holder of the shard cache mutex (lock S)
    lock_pc             \* position of each thread between its lock requests

lockVars == <<staging_guard, cache_guard, lock_pc>>

\* Variables of the parameter table (part E).
VARIABLES
    parameters,         \* ParameterTable.parameters
    diff,               \* the ParameterTableDiff last passed to apply_diff
    apply_result        \* what that apply_diff returned

tableVars == <<parameters, diff, apply_result>>

vars == <<prefetchVars, accountsVars, poolVars, lockVars, tableVars>>

\* The staging area as one value, as the mutex guards it.
Staging == [slots |-> slots, size_bytes |-> size_bytes]

(***************************************************************************)
(* PrefetchStagingArea                                                     *)
(***************************************************************************)

\* get_and_set_if_empty with the limit test off by one quantum: it compares
\* size_bytes with the limit itself.
get_and_set_if_empty_late_limit(st, key, set_if_empty) ==
    IF st.slots[key].kind = "Done"
    THEN [result |-> "Prefetched", value |-> st.slots[key].value, staging |-> st]
    ELSE IF st.slots[key].kind \in {"PendingPrefetch", "PendingFetch"}
    THEN [result |-> "Pending", value |-> NoBytes, staging |-> st]
    ELSE IF st.size_bytes > MAX_PREFETCH_STAGING_MEMORY
    THEN [result |-> "MemoryLimitReached", value |-> NoBytes, staging |-> st]
    ELSE [result |-> "SlotReserved", value |-> NoBytes,
          staging |-> [slots |-> [st.slots EXCEPT ![key] = set_if_empty],
                       size_bytes |-> st.size_bytes + PREFETCH_RESERVED_BYTES_PER_SLOT]]

\* get_and_set_if_empty taking every occupied slot for a finished one.
get_and_set_if_empty_occupied_is_done(st, key, set_if_empty) ==
    IF st.slots[key].kind # "Absent"
    THEN [result |-> "Prefetched", value |-> st.slots[key].value, staging |-> st]
    ELSE IF st.size_bytes > MAX_PREFETCH_STAGING_MEMORY - PREFETCH_RESERVED_BYTES_PER_SLOT
    THEN [result |-> "MemoryLimitReached", value |-> NoBytes, staging |-> st]
    ELSE [result |-> "SlotReserved", value |-> NoBytes,
          staging |-> [slots |-> [st.slots EXCEPT ![key] = set_if_empty],
                       size_bytes |-> st.size_bytes + PREFETCH_RESERVED_BYTES_PER_SLOT]]

\* get_and_set_if_empty writing the supplied slot over a pending one.
get_and_set_if_empty_overwrites_pending(st, key, set_if_empty) ==
    IF st.slots[key].kind = "Done"
    THEN [result |-> "Prefetched", value |-> st.slots[key].value, staging |-> st]
    ELSE IF st.slots[key].kind \in {"PendingPrefetch", "PendingFetch"}
    THEN [result |-> "Pending", value |-> NoBytes,
          staging |-> [st EXCEPT !.slots[key] = set_if_empty]]
    ELSE IF st.size_bytes > MAX_PREFETCH_STAGING_MEMORY - PREFETCH_RESERVED_BYTES_PER_SLOT
    THEN [result |-> "MemoryLimitReached", value |-> NoBytes, staging |-> st]
    ELSE [result |-> "SlotReserved", value |-> NoBytes,
          staging |-> [slots |-> [st.slots EXCEPT ![key] = set_if_empty],
                       size_bytes |-> st.size_bytes + PREFETCH_RESERVED_BYTES_PER_SLOT]]

\* fn get_and_set_if_empty: the result, the value of a Done slot and the
\* staging area it leaves.
get_and_set_if_empty(st, key, set_if_empty) ==
    IF st.slots[key].kind = "Done"
    THEN [result |-> "Prefetched", value |-> st.slots[key].value, staging |-> st]
    ELSE IF st.slots[key].kind \in {"PendingPrefetch", "PendingFetch"}
    THEN [result |-> "Pending", value |-> NoBytes, staging |-> st]
    ELSE IF st.size_bytes > MAX_PREFETCH_STAGING_MEMORY - PREFETCH_RESERVED_BYTES_PER_SLOT
    THEN [result |-> "MemoryLimitReached", value |-> NoBytes, staging |-> st]
    ELSE [result |-> "SlotReserved", value |-> NoBytes,
          staging |-> [slots |-> [st.slots EXCEPT ![key] = set_if_empty],
                       size_bytes |-> st.size_bytes + PREFETCH_RESERVED_BYTES_PER_SLOT]]

\* fn get_or_set_fetching
get_or_set_fetching(st, key) == get_and_set_if_empty(st, key, PendingFetch)

\* insert_fetched that stages an empty value in place of the fetched one.
insert_fetched_empty_value(st, key, val) ==
    [slots |-> [st.slots EXCEPT ![key] = Done([id |-> key, len |-> 0])],
     size_bytes |-> st.size_bytes - PREFETCH_RESERVED_BYTES_PER_SLOT]

\* insert_fetched that adds the length on top of the quantum.
insert_fetched_keeping_quantum(st, key, val) ==
    [slots |-> [st.slots EXCEPT ![key] = Done(val)],
     size_bytes |-> st.size_bytes + val.len]

\* fn insert_fetched (the debug assertion is compiled out of release builds)
insert_fetched(st, key, val) ==
    [slots |-> [st.slots EXCEPT ![key] = Done(val)],
     size_bytes |-> (st.size_bytes - PREFETCH_RESERVED_BYTES_PER_SLOT) + val.len]

\* release that subtracts the quantum for whatever it finds under the key.
release_subtracting_always(st, key) ==
    [slots |-> [st.slots EXCEPT ![key] = NoSlot],
     size_bytes |-> st.size_bytes - PREFETCH_RESERVED_BYTES_PER_SLOT]

\* fn release
release(st, key) ==
    LET dropped == st.slots[key] IN
    [slots |-> [st.slots EXCEPT ![key] = NoSlot],
     size_bytes |->
        CASE dropped.kind = "Done" -> st.size_bytes - dropped.value.len
          [] dropped.kind = "PendingFetch" ->
                st.size_bytes - PREFETCH_RESERVED_BYTES_PER_SLOT
          [] OTHER -> st.size_bytes]

\* A blocking_get that gives up on a pending slot.
blocking_get_giving_up(st, key) ==
    CASE st.slots[key].kind = "Done" -> [found |-> "Some", value |-> st.slots[key].value]
      [] OTHER -> [found |-> "None", value |-> NoBytes]

\* One iteration of the loop of fn blocking_get: "Some", "None" or "Retry".
blocking_get(st, key) ==
    CASE st.slots[key].kind = "Done" -> [found |-> "Some", value |-> st.slots[key].value]
      [] st.slots[key].kind = "Absent" -> [found |-> "None", value |-> NoBytes]
      [] OTHER -> [found |-> "Retry", value |-> NoBytes]

(***************************************************************************)
(* Threads                                                                 *)
(***************************************************************************)

\* A thread leaves retrieve_raw_bytes with result r and bytes v; the local
\* prefetch_state goes out of scope.
Return(t, r, v) ==
    /\ pc' = [pc EXCEPT ![t] = "idle"]
    /\ result' = [result EXCEPT ![t] = r]
    /\ value' = [value EXCEPT ![t] = v]
    /\ prefetch_state' = [prefetch_state EXCEPT ![t] = "None"]

\* A thread goes on inside retrieve_raw_bytes, at p, holding r and v.
Goto(t, p, r, v) ==
    /\ pc' = [pc EXCEPT ![t] = p]
    /\ result' = [result EXCEPT ![t] = "None"]
    /\ value' = [value EXCEPT ![t] = v]
    /\ prefetch_state' = [prefetch_state EXCEPT ![t] = r]

InitPrefetch ==
    /\ \E missing \in SUBSET Hashes :
        /\ Cardinality(missing) <= MaxMissing
        /\ store = [h \in Hashes |-> IF h \in missing THEN NoBytes ELSE StoredBytes(h)]
    /\ shard_cache = [h \in Hashes |-> NoBytes]
    /\ shard_cache_guard = NoThread
    /\ slots = [h \in Hashes |-> NoSlot]
    /\ size_bytes = 0
    /\ pc = [t \in Threads |-> "idle"]
    /\ hash = [t \in Threads |-> 0]
    /\ prefetch_state = [t \in Threads |-> "None"]
    /\ value = [t \in Threads |-> NoBytes]
    /\ result = [t \in Threads |-> "None"]

\* A shard cache guard dropped right after the lookup.
guard_dropped_after_miss(w) == NoThread

\* The holder of lock S between a worker's shard cache miss and its
\* reservation: the guard taken for the lookup is dropped only after
\* get_and_set_if_empty.
guard_after_miss(w) == w

\* TriePrefetchingStorage::retrieve_raw_bytes, lock S and the shard cache
\* lookup: a hit returns, a miss keeps S for the reservation.
WorkerLookup(w) ==
    /\ pc[w] = "idle"
    /\ shard_cache_guard = NoThread
    /\ \E h \in Hashes :
        /\ hash' = [hash EXCEPT ![w] = h]
        /\ IF shard_cache[h] # NoBytes
           THEN /\ Return(w, "Ok", shard_cache[h])
                /\ UNCHANGED shard_cache_guard
           ELSE /\ Goto(w, "reserve", "None", NoBytes)
                /\ shard_cache_guard' = guard_after_miss(w)
    /\ UNCHANGED <<store, shard_cache, slots, size_bytes>>
    /\ UNCHANGED <<accountsVars, poolVars, lockVars, tableVars>>

\* get_and_set_if_empty(hash, PendingPrefetch) under S, then drop S and
\* dispatch on the result.
WorkerReserve(w) ==
    /\ pc[w] = "reserve"
    /\ shard_cache_guard = guard_after_miss(w)
    /\ LET r == get_and_set_if_empty(Staging, hash[w], PendingPrefetch) IN
        /\ slots' = r.staging.slots
        /\ size_bytes' = r.staging.size_bytes
        /\ CASE r.result = "SlotReserved" -> Goto(w, "fetch", r.result, NoBytes)
             [] r.result = "Prefetched" -> Return(w, "Ok", r.value)
             [] r.result = "Pending" -> Goto(w, "blocking_get", r.result, NoBytes)
             [] OTHER -> Return(w, "PrefetcherFailed", NoBytes)
    /\ shard_cache_guard' = NoThread
    /\ UNCHANGED <<store, shard_cache, hash>>
    /\ UNCHANGED <<accountsVars, poolVars, lockVars, tableVars>>

\* A failed store read that gives its reservation back.
read_failed_giving_back(st, key) ==
    [slots |-> [st.slots EXCEPT ![key] = NoSlot],
     size_bytes |-> st.size_bytes - PREFETCH_RESERVED_BYTES_PER_SLOT]

\* The staging area after a failed store read: the ? operators return
\* before insert_fetched, and nothing else touches the staging area.
read_failed(st, key) == st

\* SlotReserved: the read of the backing store, which can fail, and then
\* insert_fetched.
WorkerFetch(w) ==
    /\ pc[w] = "fetch"
    /\ \/ /\ Return(w, "StorageInternalError", NoBytes)
          /\ slots' = read_failed(Staging, hash[w]).slots
          /\ size_bytes' = read_failed(Staging, hash[w]).size_bytes
       \/ /\ store[hash[w]] = NoBytes
          /\ Return(w, "TrieNodeMissing", NoBytes)
          /\ slots' = read_failed(Staging, hash[w]).slots
          /\ size_bytes' = read_failed(Staging, hash[w]).size_bytes
       \/ /\ store[hash[w]] # NoBytes
          /\ LET st == insert_fetched(Staging, hash[w], store[hash[w]]) IN
                /\ slots' = st.slots
                /\ size_bytes' = st.size_bytes
          /\ Return(w, "Ok", store[hash[w]])
    /\ UNCHANGED <<store, shard_cache, shard_cache_guard, hash>>
    /\ UNCHANGED <<accountsVars, poolVars, lockVars, tableVars>>

\* Pending: one poll of blocking_get.
WorkerBlockingGet(w) ==
    /\ pc[w] = "blocking_get"
    /\ LET g == blocking_get(Staging, hash[w]) IN
        CASE g.found = "Some" -> Return(w, "Ok", g.value)
          [] g.found = "None" -> Goto(w, "recheck", prefetch_state[w], NoBytes)
          [] OTHER -> UNCHANGED <<pc, value, result, prefetch_state>>
    /\ UNCHANGED <<store, shard_cache, shard_cache_guard, slots, size_bytes, hash>>
    /\ UNCHANGED <<accountsVars, poolVars, lockVars, tableVars>>

\* Pending, blocking_get returned None: look in the shard cache once more.
WorkerRecheck(w) ==
    /\ pc[w] = "recheck"
    /\ shard_cache_guard = NoThread
    /\ IF shard_cache[hash[w]] # NoBytes
       THEN Return(w, "Ok", shard_cache[hash[w]])
       ELSE Return(w, "PrefetcherFailed", NoBytes)
    /\ UNCHANGED <<store, shard_cache, shard_cache_guard, slots, size_bytes, hash>>
    /\ UNCHANGED <<accountsVars, poolVars, lockVars, tableVars>>

\* The main thread's read: the shard cache, then get_or_set_fetching.  A
\* prefetched value is promoted, anything else is read from the store.
MainLookup ==
    /\ pc[MainThread] = "idle"
    /\ shard_cache_guard = NoThread
    /\ \E h \in Hashes :
        /\ hash' = [hash EXCEPT ![MainThread] = h]
        /\ IF shard_cache[h] # NoBytes
           THEN /\ Return(MainThread, "Ok", shard_cache[h])
                /\ UNCHANGED <<slots, size_bytes>>
           ELSE LET r == get_or_set_fetching(Staging, h) IN
                /\ slots' = r.staging.slots
                /\ size_bytes' = r.staging.size_bytes
                /\ Goto(MainThread,
                        IF r.result = "Prefetched" THEN "promote" ELSE "fetch",
                        r.result, r.value)
    /\ UNCHANGED <<store, shard_cache, shard_cache_guard>>
    /\ UNCHANGED <<accountsVars, poolVars, lockVars, tableVars>>

\* The main thread's read of the backing store; a failure goes to the caller.
MainFetch ==
    /\ pc[MainThread] = "fetch"
    /\ \/ Return(MainThread, "StorageInternalError", NoBytes)
       \/ /\ store[hash[MainThread]] = NoBytes
          /\ Return(MainThread, "TrieNodeMissing", NoBytes)
       \/ /\ store[hash[MainThread]] # NoBytes
          /\ Goto(MainThread, "promote", prefetch_state[MainThread],
                  store[hash[MainThread]])
    /\ UNCHANGED <<store, shard_cache, shard_cache_guard, slots, size_bytes, hash>>
    /\ UNCHANGED <<accountsVars, poolVars, lockVars, tableVars>>

\* Promotion under S: insert into the shard cache (a bounded cache: the
\* insertion may evict other entries), then release the slot.
MainPromote ==
    /\ pc[MainThread] = "promote"
    /\ shard_cache_guard = NoThread
    /\ \E evicted \in SUBSET (Hashes \ {hash[MainThread]}) :
        shard_cache' = [h \in Hashes |->
                            IF h = hash[MainThread] THEN value[MainThread]
                            ELSE IF h \in evicted THEN NoBytes
                            ELSE shard_cache[h]]
    /\ LET st == release(Staging, hash[MainThread]) IN
        /\ slots' = st.slots
        /\ size_bytes' = st.size_bytes
    /\ Return(MainThread, "Ok", value[MainThread])
    /\ UNCHANGED <<store, shard_cache_guard, hash>>
    /\ UNCHANGED <<accountsVars, poolVars, lockVars, tableVars>>

NextPrefetch ==
    \/ \E w \in Workers : WorkerLookup(w)
    \/ \E w \in Workers : WorkerReserve(w)
    \/ \E w \in Workers : WorkerFetch(w)
    \/ \E w \in Workers : WorkerBlockingGet(w)
    \/ \E w \in Workers : WorkerRecheck(w)
    \/ MainLookup
    \/ MainFetch
    \/ MainPromote

(***************************************************************************)
(* B. ACCOUNTS-DATA CACHE                                                  *)
(***************************************************************************)

\* Highest version a peer sends.
MaxVersion == 2

\* Longest batch passed to insert.
MaxBatch == 2

\* Bits of the version counter.  The source's version is a u64; the model
\* scales the width.
VersionBits == 3

\* u64::MAX at the model's width.
U64_MAX == 2 ^ VersionBits - 1

\* Longest batch when two insert calls run concurrently.
MaxConcurrentBatch == 1

\* The times clock.now_utc() returns: the time carried by what peers send,
\* and a later one.
Times == {0, 1}

\* PublicKey of the important accounts.
Keys == {"k1", "k2"}

AccountIds == {"a1", "a2"}

\* Arc<AccountKeys>: account id -> set of account keys.  Account a1 owns at
\* most key k1 and account a2 at most key k2.
KeysByIdChoices ==
    {kb \in [AccountIds -> SUBSET Keys] : kb["a1"] \subseteq {"k1"} /\ kb["a2"] \subseteq {"k2"}}

\* The insert calls that can be in flight.
Calls == {"c1", "c2"}

\* Option::None of a SignedAccountData.
NoData ==
    [account_key |-> "none", version |-> 0, signer |-> "none", content |-> "none",
     large |-> FALSE, timestamp |-> 0]

\* Option::None of a LocalData.
NoLocal == [signer |-> "none", data |-> "none"]

\* LocalData: the node's signer and the AccountData it advertises.
LocalDatas == [signer : {"k1"}, data : {"local"}]

\* SignedAccountData a peer can send: the key it names, the version, who
\* signed the payload (the named key, or "forged" for a signature that does
\* not verify), and whether the payload is longer than
\* MAX_ACCOUNT_DATA_SIZE_BYTES.
PeerEntries ==
    {d \in [account_key : Keys, version : 1 .. MaxVersion, signer : Keys \cup {"forged"},
            content : {"peer"}, large : BOOLEAN, timestamp : {0}] :
        /\ d.signer \in {d.account_key, "forged"}
        /\ d.large => (d.version = 1 /\ d.signer = "forged")}

RECURSIVE SeqsUpTo(_, _)
SeqsUpTo(S, n) ==
    IF n = 0 THEN {<<>>}
    ELSE LET shorter == SeqsUpTo(S, n - 1) IN
         shorter \cup {Append(b, e) : b \in {x \in shorter : Len(x) = n - 1}, e \in S}

\* d.payload().verify(&d.account_key)
verify_signature(d) == d.signer = d.account_key

\* VersionedAccountData{..}.sign(local.signer)
sign(local, version, now) ==
    [account_key |-> local.signer, version |-> version, signer |-> local.signer,
     content |-> local.data, large |-> FALSE, timestamp |-> now]

\* version + 1 on the unsigned counter, as a build without overflow checks
\* computes it: u64::MAX + 1 wraps to 0.
add_one(version) == (version + 1) % (U64_MAX + 1)

\* The flat key set of a keys_by_id map.
flatten(keys_by_id) == UNION {keys_by_id[a] : a \in AccountIds}

(***************************************************************************)
(* CacheSnapshot                                                           *)
(***************************************************************************)

\* is_new without the comparison of versions.
is_new_ignoring_version(s, d) == d.account_key \in s.keys

\* fn is_new
is_new(s, d) ==
    /\ d.account_key \in s.keys
    /\ ~ (s.data[d.account_key] # NoData /\ s.data[d.account_key].version >= d.version)

\* try_insert that stores the received entry under the local signer's key.
try_insert_no_rebuild(s, d, now) ==
    IF ~ is_new(s, d)
    THEN [snapshot |-> s, inserted |-> NoData]
    ELSE [snapshot |-> [s EXCEPT !.data[d.account_key] = d], inserted |-> d]

\* try_insert that returns the received entry when it stores a rebuilt one.
try_insert_returning_received(s, d, now) ==
    IF ~ is_new(s, d)
    THEN [snapshot |-> s, inserted |-> NoData]
    ELSE LET e == IF s.local # NoLocal /\ d.account_key = s.local.signer
                  THEN sign(s.local, add_one(d.version), now)
                  ELSE d
         IN [snapshot |-> [s EXCEPT !.data[e.account_key] = e], inserted |-> d]

\* fn try_insert: the snapshot it leaves and the value it returns.
try_insert(s, d, now) ==
    IF ~ is_new(s, d)
    THEN [snapshot |-> s, inserted |-> NoData]
    ELSE LET e == IF s.local # NoLocal /\ d.account_key = s.local.signer
                  THEN sign(s.local, add_one(d.version), now)
                  ELSE d
         IN [snapshot |-> [s EXCEPT !.data[e.account_key] = e], inserted |-> e]

\* set_local that signs version 1 whatever is stored.
set_local_restart(s, local, now) ==
    IF local.signer \notin s.keys
    THEN [snapshot |-> [s EXCEPT !.local = local], inserted |-> NoData]
    ELSE [snapshot |-> [s EXCEPT !.data[local.signer] = sign(local, 1, now),
                                 !.local = local],
          inserted |-> sign(local, 1, now)]

\* fn set_local (of CacheSnapshot)
set_local(s, local, now) ==
    IF local.signer \notin s.keys
    THEN [snapshot |-> [s EXCEPT !.local = local], inserted |-> NoData]
    ELSE LET old == s.data[local.signer]
             d == sign(local, add_one(IF old = NoData THEN 0 ELSE old.version), now)
         IN [snapshot |-> [s EXCEPT !.data[local.signer] = d, !.local = local],
             inserted |-> d]

(***************************************************************************)
(* Cache                                                                   *)
(***************************************************************************)

\* Cache::new
new_snapshot ==
    [keys_by_id |-> [a \in AccountIds |-> {}],
     keys |-> {},
     data |-> [k \in Keys |-> NoData],
     local |-> NoLocal]

\* set_keys that keeps the data of the keys it drops.
set_keys_no_retain(s, keys_by_id) ==
    IF keys_by_id = s.keys_by_id
    THEN [ok |-> FALSE, snapshot |-> s]
    ELSE [ok |-> TRUE,
          snapshot |-> [s EXCEPT !.keys_by_id = keys_by_id, !.keys = flatten(keys_by_id)]]

\* The closure of fn set_keys: Err (nothing is published) when the key map
\* did not change.
set_keys(s, keys_by_id) ==
    IF keys_by_id = s.keys_by_id
    THEN [ok |-> FALSE, snapshot |-> s]
    ELSE LET ks == flatten(keys_by_id) IN
         [ok |-> TRUE,
          snapshot |-> [s EXCEPT !.keys_by_id = keys_by_id,
                                 !.keys = ks,
                                 !.data = [k \in Keys |->
                                            IF k \in ks THEN s.data[k] ELSE NoData]]]

\* The loop of fn verify that keeps every entry, new or not.
RECURSIVE select_new_keeping_all(_, _, _, _)
select_new_keeping_all(s, batch, i, new_data) ==
    IF i > Len(batch) THEN [new_data |-> new_data, err |-> "None"]
    ELSE LET d == batch[i] IN
         IF d.large THEN [new_data |-> {}, err |-> "DataTooLarge"]
         ELSE IF \E e \in new_data : e.account_key = d.account_key
         THEN [new_data |-> {}, err |-> "SingleAccountMultipleData"]
         ELSE select_new_keeping_all(s, batch, i + 1, new_data \cup {d})

\* The loop of fn verify over the batch, from position i on: the new data
\* selected, or the error that ends the call.
RECURSIVE select_new(_, _, _, _)
select_new(s, batch, i, new_data) ==
    IF i > Len(batch) THEN [new_data |-> new_data, err |-> "None"]
    ELSE LET d == batch[i] IN
         IF d.large THEN [new_data |-> {}, err |-> "DataTooLarge"]
         ELSE IF \E e \in new_data : e.account_key = d.account_key
         THEN [new_data |-> {}, err |-> "SingleAccountMultipleData"]
         ELSE select_new(s, batch, i + 1,
                         IF is_new(s, d) THEN new_data \cup {d} ELSE new_data)

\* try_map that collects every entry without looking at the result of f.
try_map_collect_all(new_data) == {[data |-> new_data, ok |-> TRUE]}

\* try_map that reports success although a signature failed.
try_map_hide_failure(new_data) ==
    {[data |-> v, ok |-> TRUE] : v \in SUBSET {d \in new_data : verify_signature(d)}}

\* concurrency::rayon::try_map over the new data: (all, true) when every
\* signature verifies; with an invalid one, the entries verified before the
\* failure was seen, which can be any of the valid ones, and false.
try_map(new_data) ==
    LET valid == {d \in new_data : verify_signature(d)} IN
    IF valid = new_data
    THEN {[data |-> new_data, ok |-> TRUE]}
    ELSE {[data |-> v, ok |-> FALSE] : v \in SUBSET valid}

\* fn verify without the limit on the size of a payload.
verify_ignoring_size(s, batch) ==
    LET sel == select_new(s, [i \in 1 .. Len(batch) |-> [batch[i] EXCEPT !.large = FALSE]],
                          1, {}) IN
    IF sel.err # "None"
    THEN {[data |-> {}, err |-> sel.err]}
    ELSE {[data |-> r.data, err |-> IF r.ok THEN "None" ELSE "InvalidSignature"] :
            r \in try_map(sel.new_data)}

\* fn verify: the possible (data, error) results for a batch against the
\* snapshot loaded at its start.
verify(s, batch) ==
    LET sel == select_new(s, batch, 1, {}) IN
    IF sel.err # "None"
    THEN {[data |-> {}, err |-> sel.err]}
    ELSE {[data |-> r.data, err |-> IF r.ok THEN "None" ELSE "InvalidSignature"] :
            r \in try_map(sel.new_data)}

\* The update closure of fn insert: try_insert of every verified value.
RECURSIVE insert_all(_, _, _)
insert_all(s, ds, now) ==
    IF ds = {} THEN [snapshot |-> s, inserted |-> {}]
    ELSE LET d == CHOOSE x \in ds : TRUE
             one == try_insert(s, d, now)
             rest == insert_all(one.snapshot, ds \ {d}, now)
         IN [snapshot |-> rest.snapshot,
             inserted |-> (IF one.inserted = NoData THEN {} ELSE {one.inserted})
                            \cup rest.inserted]

\* An insert call that is not running.
IdleCall ==
    [pc |-> "idle", batch |-> <<>>, data |-> {}, err |-> "None", inserted |-> {}, now |-> 0]

\* The history variable after an update that returned the values in
\* inserted and published snapshot t: the highest version returned as
\* inserted for each key since set_keys last dropped the key's entry.
Accepted(inserted, t) ==
    [k \in Keys |->
        IF t.data[k] = NoData THEN 0
        ELSE IF \E d \in inserted : d.account_key = k /\ d.version > max_accepted[k]
        THEN (CHOOSE d \in inserted : d.account_key = k).version
        ELSE max_accepted[k]]

\* A reader that has not called load().
NoLoad == [held |-> FALSE, snapshot |-> new_snapshot]

\* ArcMutex that writes the new value into the allocation readers share.
after_update_in_place(held, old, new) == IF held = old THEN new ELSE held

\* ArcMutex::update and try_update: the new value goes into a new Arc and
\* the pointer is swapped; what a reader holds is as it was.
after_update(held, old, new) == held

\* What the reader holds after an update has published inner'.
Published ==
    loaded' = [loaded EXCEPT !.snapshot =
                    IF loaded.held THEN after_update(@, inner, inner') ELSE @]

InitAccounts ==
    /\ inner = new_snapshot
    /\ call = [c \in Calls |-> IdleCall]
    /\ max_accepted = [k \in Keys |-> 0]
    /\ loaded = NoLoad

\* Cache::load
Load ==
    /\ loaded' = [held |-> TRUE, snapshot |-> inner]
    /\ UNCHANGED <<inner, call, max_accepted>>
    /\ UNCHANGED <<prefetchVars, poolVars, lockVars, tableVars>>

\* Cache::set_keys
SetKeys(keys_by_id) ==
    /\ inner' = set_keys(inner, keys_by_id).snapshot
    /\ max_accepted' = Accepted({}, inner')
    /\ Published
    /\ UNCHANGED call
    /\ UNCHANGED <<prefetchVars, poolVars, lockVars, tableVars>>

\* Cache::set_local; the version counter is capped at MaxVersion + 1.  The
\* time the clock of the call returns is an input, read when the signer's
\* key is in keys.
SetLocal(local) ==
    /\ inner.data[local.signer] # NoData => inner.data[local.signer].version <= MaxVersion
    /\ \E now \in (IF local.signer \in inner.keys THEN Times ELSE {0}) :
        /\ inner' = set_local(inner, local, now).snapshot
        /\ max_accepted' = Accepted({set_local(inner, local, now).inserted} \ {NoData}, inner')
    /\ Published
    /\ UNCHANGED call
    /\ UNCHANGED <<prefetchVars, poolVars, lockVars, tableVars>>

\* The batches passed to insert when one call runs at a time.
Batches == SeqsUpTo(PeerEntries, MaxBatch)

\* The batches passed to insert when two calls run concurrently: entries
\* of regular size with signatures that verify.
ConcurrentBatches ==
    SeqsUpTo({d \in PeerEntries : verify_signature(d) /\ ~ d.large}, MaxConcurrentBatch)

\* Cache::insert is called with one of the batches.
InsertCall(c, batches) ==
    /\ call[c].pc = "idle"
    /\ \E batch \in batches :
        call' = [call EXCEPT ![c] = [IdleCall EXCEPT !.pc = "verify", !.batch = batch]]
    /\ UNCHANGED <<inner, max_accepted, loaded>>
    /\ UNCHANGED <<prefetchVars, poolVars, lockVars, tableVars>>

\* fn verify: load the snapshot, select the new data, verify the signatures.
InsertVerify(c) ==
    /\ call[c].pc = "verify"
    /\ \E r \in verify(inner, call[c].batch) :
        call' = [call EXCEPT ![c] = [@ EXCEPT !.pc = "commit", !.data = r.data,
                                              !.err = r.err]]
    /\ UNCHANGED <<inner, max_accepted, loaded>>
    /\ UNCHANGED <<prefetchVars, poolVars, lockVars, tableVars>>

\* The update of fn insert and its return; the time the clock of the call
\* returns is an input, kept in the call when an entry is rebuilt with it.
InsertCommit(c) ==
    /\ call[c].pc = "commit"
    /\ \E now \in Times :
        LET r == insert_all(inner, call[c].data, now)
            read == \E d \in call[c].data :
                        /\ is_new(inner, d)
                        /\ inner.local # NoLocal
                        /\ d.account_key = inner.local.signer
        IN
        /\ inner' = r.snapshot
        /\ call' = [call EXCEPT ![c] = [@ EXCEPT !.pc = "done", !.inserted = r.inserted,
                                                  !.now = IF read THEN now ELSE 0]]
        /\ max_accepted' = Accepted(r.inserted, r.snapshot)
    /\ Published
    /\ UNCHANGED <<prefetchVars, poolVars, lockVars, tableVars>>

\* The caller has taken the (inserted, error) pair that insert returned.
InsertReturn(c) ==
    /\ call[c].pc = "done"
    /\ call' = [call EXCEPT ![c] = IdleCall]
    /\ UNCHANGED <<inner, max_accepted, loaded>>
    /\ UNCHANGED <<prefetchVars, poolVars, lockVars, tableVars>>

\* SignedAccountData with a signature that verifies and a version at the
\* low or at the high end of the counter.
EdgeEntries ==
    {d \in [account_key : Keys, version : {1, U64_MAX - 1, U64_MAX},
            signer : Keys, content : {"peer"}, large : {FALSE},
            timestamp : {0}] :
        d.signer = d.account_key}

\* The batches of one such entry.
EdgeBatches == SeqsUpTo(EdgeEntries, 1)

\* The update of fn insert in a build with overflow checks, when a new
\* entry for the local signer's key carries version u64::MAX: version + 1
\* panics inside the update closure, nothing is published and the call does
\* not return.
InsertCommitPanics(c) ==
    /\ call[c].pc = "commit"
    /\ \E d \in call[c].data :
            /\ is_new(inner, d)
            /\ inner.local # NoLocal
            /\ d.account_key = inner.local.signer
            /\ d.version = U64_MAX
    /\ call' = [call EXCEPT ![c] = [@ EXCEPT !.pc = "panicked"]]
    /\ UNCHANGED <<inner, max_accepted, loaded>>
    /\ UNCHANGED <<prefetchVars, poolVars, lockVars, tableVars>>

\* One insert call at a time whose entries reach the end of the version
\* counter, in builds with and without overflow checks.
NextOverride ==
    \/ \E kb \in KeysByIdChoices : SetKeys(kb)
    \/ \E l \in LocalDatas : SetLocal(l)
    \/ InsertCall("c1", EdgeBatches)
    \/ InsertVerify("c1")
    \/ InsertCommit("c1")
    \/ InsertCommitPanics("c1")
    \/ InsertReturn("c1")

NextAccounts ==
    \/ \E kb \in KeysByIdChoices : SetKeys(kb)
    \/ \E l \in LocalDatas : SetLocal(l)
    \/ InsertCall("c1", Batches)
    \/ InsertVerify("c1")
    \/ InsertCommit("c1")
    \/ InsertReturn("c1")

\* The batches passed to insert while a reader holds a snapshot: entries
\* of regular size with signatures that verify.
SnapshotBatches ==
    SeqsUpTo({d \in PeerEntries : verify_signature(d) /\ ~ d.large}, MaxBatch)

\* LocalData of either signer, advertising one of two AccountData.
LocalChoices == [signer : Keys, data : {"local", "later"}]

\* One insert call at a time on a node whose local record changes its
\* signer and its data.
NextLocal ==
    \/ \E kb \in KeysByIdChoices : SetKeys(kb)
    \/ \E l \in LocalChoices : SetLocal(l)
    \/ InsertCall("c1", SnapshotBatches)
    \/ InsertVerify("c1")
    \/ InsertCommit("c1")
    \/ InsertReturn("c1")

\* An insert call with set_keys and set_local between its steps, and a
\* reader that loads snapshots.
NextSnapshots ==
    \/ \E kb \in KeysByIdChoices : SetKeys(kb)
    \/ \E l \in LocalDatas : SetLocal(l)
    \/ InsertCall("c1", SnapshotBatches)
    \/ InsertVerify("c1")
    \/ InsertCommit("c1")
    \/ InsertReturn("c1")
    \/ Load

NextAccountsConcurrent ==
    \/ \E kb \in KeysByIdChoices : SetKeys(kb)
    \/ \E l \in LocalDatas : SetLocal(l)
    \/ \E c \in Calls : InsertCall(c, ConcurrentBatches)
    \/ \E c \in Calls : InsertVerify(c)
    \/ \E c \in Calls : InsertCommit(c)
    \/ \E c \in Calls : InsertReturn(c)

(***************************************************************************)
(* D. PREFETCH API AND I/O THREADS                                         *)
(***************************************************************************)

\* Capacity of the work queue.  The source sets 16 * 1024 items; the model
\* scales the count.
QueueItems == 1

MAX_QUEUED_WORK_ITEMS == QueueItems

\* Most nodes one trie walk reads, the depth of the trie.
MaxWalk == 2

TrieKeys == {"ka", "kb"}

\* Result<(), TrieKey> of prefetch_trie_key, and the value before any call.
NoPush == [ok |-> TRUE, key |-> "none"]

\* crossbeam ArrayQueue::push that grows the queue beyond its capacity.
push_unbounded(queue, trie_key) ==
    [queue |-> Append(queue, trie_key), ok |-> TRUE, key |-> "none"]

\* crossbeam ArrayQueue::push: Err(value) when the queue is full.
push(queue, trie_key) ==
    IF Len(queue) >= MAX_QUEUED_WORK_ITEMS
    THEN [queue |-> queue, ok |-> FALSE, key |-> trie_key]
    ELSE [queue |-> Append(queue, trie_key), ok |-> TRUE, key |-> "none"]

\* PrefetchApi::new
InitPool ==
    /\ work_queue = <<>>
    /\ stop_io = FALSE
    /\ io_pc = [w \in Workers |-> "not_started"]
    /\ walk_left = [w \in Workers |-> 0]
    /\ pushed = NoPush

\* fn prefetch_trie_key
PrefetchTrieKey(trie_key) ==
    /\ LET r == push(work_queue, trie_key) IN
        /\ work_queue' = r.queue
        /\ pushed' = [ok |-> r.ok, key |-> r.key]
    /\ UNCHANGED <<stop_io, io_pc, walk_left>>
    /\ UNCHANGED <<prefetchVars, accountsVars, lockVars, tableVars>>

\* fn clear
Clear ==
    /\ work_queue # <<>>
    /\ work_queue' = <<>>
    /\ UNCHANGED <<stop_io, io_pc, walk_left, pushed>>
    /\ UNCHANGED <<prefetchVars, accountsVars, lockVars, tableVars>>

\* fn stop
Stop ==
    /\ ~ stop_io
    /\ stop_io' = TRUE
    /\ UNCHANGED <<work_queue, io_pc, walk_left, pushed>>
    /\ UNCHANGED <<prefetchVars, accountsVars, lockVars, tableVars>>

\* fn start_io_thread: the thread is spawned and reaches its loop.
StartIoThread(w) ==
    /\ io_pc[w] = "not_started"
    /\ io_pc' = [io_pc EXCEPT ![w] = "check_stop"]
    /\ UNCHANGED <<work_queue, stop_io, walk_left, pushed>>
    /\ UNCHANGED <<prefetchVars, accountsVars, lockVars, tableVars>>

\* while !stop_io.load(Acquire)
IoCheckStop(w) ==
    /\ io_pc[w] = "check_stop"
    /\ io_pc' = [io_pc EXCEPT ![w] = IF stop_io THEN "exited" ELSE "pop"]
    /\ UNCHANGED <<work_queue, stop_io, walk_left, pushed>>
    /\ UNCHANGED <<prefetchVars, accountsVars, lockVars, tableVars>>

\* work_queue.pop(): a trie key starts a walk at the root node, an empty
\* queue sleeps and loops.
IoPop(w) ==
    /\ io_pc[w] = "pop"
    /\ IF work_queue # <<>>
       THEN /\ work_queue' = Tail(work_queue)
            /\ io_pc' = [io_pc EXCEPT ![w] = "walk"]
            /\ walk_left' = [walk_left EXCEPT ![w] = MaxWalk - 1]
            /\ result' = [result EXCEPT ![w] = "None"]
       ELSE /\ io_pc' = [io_pc EXCEPT ![w] = "check_stop"]
            /\ UNCHANGED <<work_queue, walk_left, result>>
    /\ UNCHANGED <<stop_io, pushed>>
    /\ UNCHANGED <<store, shard_cache, shard_cache_guard, slots, size_bytes, pc, hash,
                   prefetch_state, value>>
    /\ UNCHANGED <<accountsVars, lockVars, tableVars>>

\* prefetcher_trie.get asks its storage for a node.
IoRetrieve(w) ==
    /\ io_pc[w] = "walk"
    /\ result[w] = "None"
    /\ WorkerLookup(w)

\* The node has come back and the walk goes one level down.
IoWalkNext(w) ==
    /\ io_pc[w] = "walk"
    /\ pc[w] = "idle"
    /\ result[w] = "Ok"
    /\ walk_left[w] > 0
    /\ walk_left' = [walk_left EXCEPT ![w] = @ - 1]
    /\ result' = [result EXCEPT ![w] = "None"]
    /\ UNCHANGED <<work_queue, stop_io, io_pc, pushed>>
    /\ UNCHANGED <<store, shard_cache, shard_cache_guard, slots, size_bytes, pc, hash,
                   prefetch_state, value>>
    /\ UNCHANGED <<accountsVars, lockVars, tableVars>>

\* prefetcher_trie.get returns: the walk is over or a node could not be
\* retrieved; either way only a counter is traced.
IoWalkDone(w) ==
    /\ io_pc[w] = "walk"
    /\ pc[w] = "idle"
    /\ result[w] # "None"
    /\ io_pc' = [io_pc EXCEPT ![w] = "check_stop"]
    /\ walk_left' = [walk_left EXCEPT ![w] = 0]
    /\ UNCHANGED <<work_queue, stop_io, pushed>>
    /\ UNCHANGED <<prefetchVars, accountsVars, lockVars, tableVars>>

\* The steps of one I/O thread.
IoThread(w) ==
    \/ StartIoThread(w)
    \/ IoCheckStop(w)
    \/ IoPop(w)
    \/ IoRetrieve(w)
    \/ IoWalkNext(w)
    \/ IoWalkDone(w)
    \/ WorkerReserve(w)
    \/ WorkerFetch(w)
    \/ WorkerBlockingGet(w)
    \/ WorkerRecheck(w)

NextPool ==
    \/ \E k \in TrieKeys : PrefetchTrieKey(k)
    \/ Clear
    \/ Stop
    \/ \E w \in Workers : IoThread(w)
    \/ MainLookup
    \/ MainFetch
    \/ MainPromote

(***************************************************************************)
(* C. LOCKS S AND P                                                        *)
(* The same threads seen at the level of their lock requests: every        *)
(* step is the acquisition or the release of the shard cache mutex (S) or  *)
(* of the staging area mutex (P); the data that decides a branch is left   *)
(* open, so every branch of the code can be taken.                         *)
(***************************************************************************)

InitLocks ==
    /\ staging_guard = NoThread
    /\ cache_guard = NoThread
    /\ lock_pc = [t \in Threads |-> "idle"]

\* self.shard_cache.0.lock() at position from.
LockS(t, from, to) ==
    /\ lock_pc[t] = from
    /\ cache_guard = NoThread
    /\ cache_guard' = t
    /\ lock_pc' = [lock_pc EXCEPT ![t] = to]
    /\ UNCHANGED staging_guard
    /\ UNCHANGED <<prefetchVars, accountsVars, poolVars, tableVars>>

\* self.0.lock() of the staging area at position from.
LockP(t, from, to) ==
    /\ lock_pc[t] = from
    /\ staging_guard = NoThread
    /\ staging_guard' = t
    /\ lock_pc' = [lock_pc EXCEPT ![t] = to]
    /\ UNCHANGED cache_guard
    /\ UNCHANGED <<prefetchVars, accountsVars, poolVars, tableVars>>

\* The shard cache guard is dropped and the thread goes to one of tos.
UnlockS(t, from, tos) ==
    /\ lock_pc[t] = from
    /\ cache_guard' = NoThread
    /\ \E to \in tos : lock_pc' = [lock_pc EXCEPT ![t] = to]
    /\ UNCHANGED staging_guard
    /\ UNCHANGED <<prefetchVars, accountsVars, poolVars, tableVars>>

\* The staging guard is dropped and the thread goes to one of tos.
UnlockP(t, from, tos) ==
    /\ lock_pc[t] = from
    /\ staging_guard' = NoThread
    /\ \E to \in tos : lock_pc' = [lock_pc EXCEPT ![t] = to]
    /\ UNCHANGED cache_guard
    /\ UNCHANGED <<prefetchVars, accountsVars, poolVars, tableVars>>

\* blocking_get returning None with the guard of its match still alive.
guard_after_blocking_get_kept(t) == t

\* The holder of P when blocking_get has returned: the guard is a temporary
\* of the match and is dropped at the return.
guard_after_blocking_get(t) == NoThread

\* blocking_get sleeping with the guard of its match still alive.
guard_at_sleep_kept(t) == t

\* The holder of P when blocking_get sleeps: the guard is a temporary of the
\* match and is dropped where the match ends, before the sleep.
guard_at_sleep(t) == NoThread

\* retrieve_raw_bytes starts: lock S for the shard cache lookup.
LockLookup(t) == LockS(t, "idle", "lookup")

\* A hit in the shard cache: return, dropping S.
LockHit(t) == UnlockS(t, "lookup", {"idle"})

\* A miss: get_and_set_if_empty locks P while S is held.
LockReserve(t) == LockP(t, "lookup", "reserve")

\* get_and_set_if_empty returns.
LockReserved(t) == UnlockP(t, "reserve", {"reserved"})

\* drop(shard_cache_guard) and the dispatch on the PrefetcherResult: a
\* worker reads the store, returns or waits; the main thread reads the store
\* or promotes the prefetched value.
LockDispatch(t) ==
    UnlockS(t, "reserved",
            IF t \in Workers THEN {"store_read", "idle", "blocking_get"}
            ELSE {"store_read", "promote"})

\* The store read, under no lock: a failure returns; a worker goes on to
\* insert_fetched and the main thread to the promotion.
LockStoreRead(t) ==
    /\ lock_pc[t] = "store_read"
    /\ \E to \in {"idle", IF t \in Workers THEN "insert_fetched" ELSE "promote"} :
        lock_pc' = [lock_pc EXCEPT ![t] = to]
    /\ UNCHANGED <<staging_guard, cache_guard>>
    /\ UNCHANGED <<prefetchVars, accountsVars, poolVars, tableVars>>

\* insert_fetched locks P.
LockInsertFetched(w) == LockP(w, "insert_fetched", "inserting")

\* insert_fetched returns, and so does retrieve_raw_bytes.
LockInserted(w) == UnlockP(w, "inserting", {"idle"})

\* One iteration of blocking_get locks P.
LockPoll(w) == LockP(w, "blocking_get", "polling")

\* The iteration ends: Some returns the bytes, a pending slot sleeps and
\* retries, None goes to the second look into the shard cache.
LockPolled(w) ==
    /\ lock_pc[w] = "polling"
    /\ \E to \in {"idle", "blocking_get", "recheck"} :
        /\ lock_pc' = [lock_pc EXCEPT ![w] = to]
        /\ staging_guard' = IF to = "recheck" THEN guard_after_blocking_get(w)
                            ELSE IF to = "blocking_get" THEN guard_at_sleep(w)
                            ELSE NoThread
    /\ UNCHANGED cache_guard
    /\ UNCHANGED <<prefetchVars, accountsVars, poolVars, tableVars>>

\* The closure of or_else locks S.
LockRecheck(w) == LockS(w, "recheck", "rechecking")

\* The closure returns, and so does retrieve_raw_bytes.
LockRechecked(w) == UnlockS(w, "rechecking", {"idle"})

\* The main thread locks S to insert into the shard cache.
LockPromote == LockS(MainThread, "promote", "promoting")

\* release locks P while the main thread holds S.
LockRelease == LockP(MainThread, "promoting", "releasing")

\* release returns.
LockReleased == UnlockP(MainThread, "releasing", {"released"})

\* The main thread drops S and returns.
LockPromoted == UnlockS(MainThread, "released", {"idle"})

NextLocks ==
    \/ \E t \in Threads : LockLookup(t)
    \/ \E t \in Threads : LockHit(t)
    \/ \E t \in Threads : LockReserve(t)
    \/ \E t \in Threads : LockReserved(t)
    \/ \E t \in Threads : LockDispatch(t)
    \/ \E t \in Threads : LockStoreRead(t)
    \/ \E w \in Workers : LockInsertFetched(w)
    \/ \E w \in Workers : LockInserted(w)
    \/ \E w \in Workers : LockPoll(w)
    \/ \E w \in Workers : LockPolled(w)
    \/ \E w \in Workers : LockRecheck(w)
    \/ \E w \in Workers : LockRechecked(w)
    \/ LockPromote
    \/ LockRelease
    \/ LockReleased
    \/ LockPromoted

(***************************************************************************)
(* E. PARAMETER TABLE                                                      *)
(***************************************************************************)

\* Number of distinct ParameterValue.
NumValues == 2

\* Parameter, in the order of its derive(Ord): the order of a BTreeMap.
Parameters == {1, 2}

ParameterValues == 1 .. NumValues

\* Option::None of a ParameterValue.
NoValue == 0

\* A key that a diff does not name.
NoEntry == [named |-> FALSE, before |-> NoValue, after |-> NoValue]

\* ParameterTableDiff: parameter -> (before, after).
Diffs ==
    [Parameters -> {NoEntry} \cup [named : {TRUE},
                                   before : ParameterValues \cup {NoValue},
                                   after : ParameterValues \cup {NoValue}]]

\* Result<(), InvalidConfigError> of apply_diff.
OkResult == [kind |-> "Ok", key |-> 0, first |-> NoValue, second |-> NoValue]

NoOldValueExists(key, v) ==
    [kind |-> "NoOldValueExists", key |-> key, first |-> v, second |-> NoValue]

OldValueExists(key, v) ==
    [kind |-> "OldValueExists", key |-> key, first |-> v, second |-> NoValue]

WrongOldValue(key, v, w) ==
    [kind |-> "WrongOldValue", key |-> key, first |-> v, second |-> w]

\* The comparison of old values with the arguments of its errors exchanged.
check_old_value_swapped(key, old_value, before) ==
    IF old_value = before THEN OkResult
    ELSE IF old_value = NoValue THEN NoOldValueExists(key, before)
    ELSE IF before = NoValue THEN OldValueExists(key, before)
    ELSE WrongOldValue(key, before, old_value)

\* apply_diff, the comparison of the table's value with the diff's old value.
check_old_value(key, old_value, before) ==
    IF old_value = before THEN OkResult
    ELSE IF old_value = NoValue THEN NoOldValueExists(key, before)
    ELSE IF before = NoValue THEN OldValueExists(key, old_value)
    ELSE WrongOldValue(key, old_value, before)

\* The write of a diff entry that never removes a key.
set_value_keeping(table, key, after) ==
    IF after = NoValue THEN table ELSE [table EXCEPT ![key] = after]

\* apply_diff, insert of the new value or remove of the key.
set_value(table, key, after) == [table EXCEPT ![key] = after]

\* The loop of apply_diff over the keys left, the smallest key first.
RECURSIVE apply_diff_over(_, _, _)
apply_diff_over(table, d, keys) ==
    IF keys = {} THEN [parameters |-> table, result |-> OkResult]
    ELSE LET key == CHOOSE k \in keys : \A j \in keys : k <= j
             checked == check_old_value(key, table[key], d[key].before)
         IN  IF checked # OkResult
             THEN [parameters |-> table, result |-> checked]
             ELSE apply_diff_over(set_value(table, key, d[key].after), d,
                                  keys \ {key})

\* apply_diff that gives back the original table when it returns an error.
apply_diff_atomic(table, d) ==
    LET r == apply_diff_over(table, d, {k \in Parameters : d[k].named}) IN
    IF r.result = OkResult THEN r ELSE [parameters |-> table, result |-> r.result]

\* fn apply_diff
apply_diff(table, d) ==
    apply_diff_over(table, d, {k \in Parameters : d[k].named})

\* An empty ParameterTable, no diff applied.
InitTable ==
    /\ parameters = [k \in Parameters |-> NoValue]
    /\ diff = [k \in Parameters |-> NoEntry]
    /\ apply_result = OkResult

\* table.apply_diff(d)
ApplyDiff(d) ==
    /\ parameters' = apply_diff(parameters, d).parameters
    /\ apply_result' = apply_diff(parameters, d).result
    /\ diff' = d
    /\ UNCHANGED <<prefetchVars, accountsVars, poolVars, lockVars>>

NextTable == \E d \in Diffs : ApplyDiff(d)

(***************************************************************************)
(* Specifications                                                          *)
(***************************************************************************)

\* Both parts as constructed.
Init == InitPrefetch /\ InitAccounts /\ InitPool /\ InitLocks /\ InitTable

\* Both parts as constructed, over a store that holds every hash.
InitFullStore == Init /\ \A h \in Hashes : store[h] # NoBytes

SpecPrefetch == Init /\ [][NextPrefetch]_vars

\* One insert call at a time, with set_keys and set_local between its steps.
SpecAccounts == InitFullStore /\ [][NextAccounts]_vars

\* Two insert calls in flight.
SpecAccountsConcurrent == InitFullStore /\ [][NextAccountsConcurrent]_vars

\* Updates running concurrently with an insert call, and a reader holding
\* a loaded snapshot.
SpecSnapshots == InitFullStore /\ [][NextSnapshots]_vars

\* Inserts on a node whose local record changes.
SpecLocal == InitFullStore /\ [][NextLocal]_vars

\* Inserts of entries at the end of the version counter.
SpecOverride == InitFullStore /\ [][NextOverride]_vars

\* The I/O threads fed by the work queue, with the main thread.
SpecPool == InitFullStore /\ [][NextPool]_vars

\* The same under fair scheduling: every I/O thread that can take a step
\* takes one, and the main thread finishes a read it has begun; when the
\* main thread begins a read, and when keys are pushed, is up to the caller.
SpecPoolLive ==
    /\ InitFullStore
    /\ [][NextPool]_vars
    /\ \A w \in Workers : WF_vars(IoThread(w))
    /\ WF_vars(MainFetch \/ MainPromote)

\* The staging area under fair scheduling: a thread inside
\* retrieve_raw_bytes that can take a step takes one; when a thread begins a
\* read is up to its caller.
SpecPrefetchLive ==
    /\ Init
    /\ [][NextPrefetch]_vars
    /\ \A w \in Workers :
          SF_vars(WorkerReserve(w) \/ WorkerFetch(w) \/ WorkerBlockingGet(w)
                      \/ WorkerRecheck(w))
    /\ SF_vars(MainFetch \/ MainPromote)

\* Diffs applied one after the other to a parameter table.
SpecTable == InitFullStore /\ [][NextTable]_vars

\* The threads at the level of their lock requests.
SpecLocks == InitFullStore /\ [][NextLocks]_vars

(***************************************************************************)
(* Properties of the staging area                                          *)
(***************************************************************************)

\* The charge of a slot: the quantum while pending, the length once done.
Charge(slot) ==
    CASE slot.kind = "Done" -> slot.value.len
      [] slot.kind \in {"PendingPrefetch", "PendingFetch"} ->
            PREFETCH_RESERVED_BYTES_PER_SLOT
      [] OTHER -> 0

RECURSIVE SumCharges(_, _)
SumCharges(sl, hs) ==
    IF hs = {} THEN 0
    ELSE LET h == CHOOSE x \in hs : TRUE IN Charge(sl[h]) + SumCharges(sl, hs \ {h})

\* C1: in every reachable state size_bytes equals the sum over the present
\* slots of their charge (the quantum for a pending slot, len(b) for Done(b)).
C1_SizeIsSumOfCharges == size_bytes = SumCharges(slots, Hashes)

\* A reservation of an absent hash that does not fit under the limit.
OverLimit(h) ==
    /\ slots[h].kind = "Absent"
    /\ size_bytes + PREFETCH_RESERVED_BYTES_PER_SLOT > MAX_PREFETCH_STAGING_MEMORY

\* C2: size_bytes never exceeds MAX_PREFETCH_STAGING_MEMORY, and a
\* reservation that would push it over the limit is refused with
\* MemoryLimitReached (the worker returns "Prefetcher failed", the main
\* thread goes on to the store without a slot) and installs nothing.
C2_LimitAndRefusal ==
    /\ [](size_bytes <= MAX_PREFETCH_STAGING_MEMORY)
    /\ [][ /\ \A w \in Workers :
               (pc[w] = "reserve" /\ pc'[w] # "reserve" /\ OverLimit(hash[w]))
                   => /\ pc'[w] = "idle"
                      /\ result'[w] = "PrefetcherFailed"
                      /\ slots' = slots
                      /\ size_bytes' = size_bytes
           /\ (pc[MainThread] = "idle" /\ pc'[MainThread] = "fetch"
                    /\ OverLimit(hash'[MainThread]))
                   => /\ prefetch_state'[MainThread] = "MemoryLimitReached"
                      /\ slots' = slots
                      /\ size_bytes' = size_bytes
         ]_vars

\* A reservation has been refused while the staging area is full.
C2_Witness ==
    /\ prefetch_state[MainThread] = "MemoryLimitReached"
    /\ size_bytes = MAX_PREFETCH_STAGING_MEMORY
    /\ slots[hash[MainThread]].kind = "Absent"

\* C9: every finished retrieve_raw_bytes(h) of a worker that returned bytes
\* returned exactly the bytes the backing store holds for h; the other
\* outcomes are the errors (StorageInconsistentState, or StorageInternalError
\* when the store read itself failed).
C9_WorkersReturnStoreBytes ==
    \A w \in Workers :
        (pc[w] = "idle" /\ result[w] = "Ok")
            => /\ store[hash[w]] # NoBytes
               /\ value[w] = store[hash[w]]

\* Both workers have got the bytes of a hash that is still staged, and the
\* main thread is promoting the same hash.
C9_Witness ==
    \E h \in Hashes :
        /\ \A w \in Workers : pc[w] = "idle" /\ hash[w] = h /\ result[w] = "Ok"
        /\ slots[h].kind = "Done"
        /\ shard_cache[h] = NoBytes
        /\ pc[MainThread] = "promote" /\ hash[MainThread] = h

\* The threads whose read of the backing store for h is in flight.
Fetching(h) == {t \in Threads : pc[t] = "fetch" /\ hash[t] = h}

\* C10: a node is read from the backing store only once across threads: at
\* most one store read for a hash is in flight.
C10_OneStoreReadInFlight == \A h \in Hashes : Cardinality(Fetching(h)) <= 1

\* C11: a hash that the main thread has inserted into the shard cache and
\* released is not in the shard cache and in the staging area at once.  A
\* slot is only created after a miss in the shard cache and the shard cache
\* is only filled by the promotion, so every state with the hash in the
\* shard cache follows an insert and a release of it.
C11_NotInCacheAndStaging ==
    \A h \in Hashes : ~ (shard_cache[h] # NoBytes /\ slots[h].kind # "Absent")

\* C12: every insert_fetched(k) finds the PendingPrefetch slot its thread
\* reserved for k, not released since; every release(k) that removes a slot
\* removes a Done slot (an insert_fetched came before) or a PendingFetch
\* reservation, never a PendingPrefetch slot.
C12_InsertAndReleaseFollowReservation ==
    [][ /\ \A w \in Workers :
            (pc[w] = "fetch" /\ pc'[w] = "idle" /\ result'[w] = "Ok")
                => slots[hash[w]].kind = "PendingPrefetch"
        /\ (pc[MainThread] = "promote" /\ pc'[MainThread] = "idle"
                /\ slots[hash[MainThread]].kind # "Absent")
                => slots[hash[MainThread]].kind \in {"Done", "PendingFetch"}
      ]_vars

\* A step taken by a worker.
WorkerStep ==
    \E w \in Workers :
        <<pc[w], hash[w], prefetch_state[w], value[w], result[w]>>
            # <<pc'[w], hash'[w], prefetch_state'[w], value'[w], result'[w]>>

\* C14: prefetching is invisible to the main thread.  Worker steps leave the
\* shard cache alone and remove no slot; the shard cache changes only when
\* the main thread inserts the store's bytes of the hash it read; whether a
\* main-thread read is a hit or a miss depends on the shard cache only; a
\* miss ends with an error of the store read or with that insertion; and a
\* main-thread read that returns bytes returns the store's bytes, while one
\* that reports a missing node was for a hash the store does not hold.
C14_PrefetchInvisibleToMain ==
    /\ [](pc[MainThread] = "idle" =>
            /\ result[MainThread] = "Ok" =>
                    (store[hash[MainThread]] # NoBytes
                        /\ value[MainThread] = store[hash[MainThread]])
            /\ result[MainThread] = "TrieNodeMissing" => store[hash[MainThread]] = NoBytes)
    /\ [][ /\ WorkerStep =>
                /\ shard_cache' = shard_cache
                /\ \A h \in Hashes : slots[h].kind # "Absent" => slots'[h].kind # "Absent"
           /\ shard_cache' # shard_cache => pc[MainThread] = "promote"
           /\ (pc[MainThread] = "promote" /\ pc'[MainThread] = "idle") =>
                /\ shard_cache'[hash[MainThread]] = store[hash[MainThread]]
                /\ result'[MainThread] = "Ok"
           /\ (pc[MainThread] = "idle" /\ pc'[MainThread] # "idle") =>
                shard_cache[hash'[MainThread]] = NoBytes
           /\ (pc[MainThread] = "fetch" /\ pc'[MainThread] = "idle") =>
                result'[MainThread] \in {"StorageInternalError", "TrieNodeMissing"}
           /\ (pc[MainThread] = "fetch" /\ pc'[MainThread] # "fetch") =>
                pc'[MainThread] \in {"idle", "promote"}
         ]_vars

\* The main thread holds bytes it got from the staging area, prefetched by
\* one worker, while the other worker's retrieval of another hash has failed.
C14_Witness ==
    /\ pc[MainThread] = "promote"
    /\ prefetch_state[MainThread] = "Prefetched"
    /\ value[MainThread] = store[hash[MainThread]]
    /\ \E w \in Workers :
        /\ pc[w] = "idle"
        /\ result[w] \in {"StorageInternalError", "TrieNodeMissing", "PrefetcherFailed"}
        /\ hash[w] # hash[MainThread]

\* The hashes that have a slot.
PresentSlots == {h \in Hashes : slots[h].kind # "Absent"}

\* C15: a reservation of an absent hash is refused with MemoryLimitReached
\* exactly when size_bytes > MAX - QUANTUM and granted otherwise; and when
\* fewer slots are present than the limit holds quanta (MAX = 2 * QUANTUM:
\* after two reservations and one release) a new reservation is granted.
C15_ReservationAfterRelease ==
    \A h \in Hashes :
        slots[h].kind = "Absent" =>
            LET r == get_and_set_if_empty(Staging, h, PendingFetch).result IN
            /\ r = "MemoryLimitReached"
                <=> size_bytes > MAX_PREFETCH_STAGING_MEMORY - PREFETCH_RESERVED_BYTES_PER_SLOT
            /\ r # "MemoryLimitReached" => r = "SlotReserved"
            /\ Cardinality(PresentSlots) < StagingQuanta => r = "SlotReserved"

\* A thread about to request the shard cache mutex.
RequestsS(t) == lock_pc[t] \in {"recheck", "promote"}

\* A thread about to request the staging area mutex.
RequestsP(t) == lock_pc[t] \in {"lookup", "store_read", "insert_fetched", "blocking_get", "promoting"}

\* C13: no thread requests S while it holds P (a thread that holds both took
\* S first), and no two threads wait for each other's lock, nor a thread for
\* a lock it holds itself.
C13_LockOrder ==
    /\ \A t \in Threads : RequestsS(t) => staging_guard # t
    /\ \A t \in Threads : ~ (RequestsS(t) /\ cache_guard = t)
    /\ \A t \in Threads : ~ (RequestsP(t) /\ staging_guard = t)
    /\ \A t, u \in Threads :
        ~ (RequestsP(t) /\ staging_guard = u /\ RequestsS(u) /\ cache_guard = t)

\* One worker holds S and P in get_and_set_if_empty while the other worker
\* waits for S after blocking_get and the main thread waits for P to
\* release a slot.
C13_Witness ==
    /\ lock_pc["w1"] = "reserve" /\ cache_guard = "w1" /\ staging_guard = "w1"
    /\ lock_pc["w2"] = "recheck"
    /\ lock_pc[MainThread] = "promote"

(***************************************************************************)
(* Properties of the prefetch API                                          *)
(***************************************************************************)

\* C16: the work queue never holds more than MAX_QUEUED_WORK_ITEMS trie
\* keys: on a full queue prefetch_trie_key returns the same key back as an
\* error and leaves the queue unchanged, on a queue that is not full it
\* appends the key and returns Ok, while producers push and workers pop.
C16_QueueBounded ==
    /\ [](Len(work_queue) <= MAX_QUEUED_WORK_ITEMS)
    /\ [](\A k \in TrieKeys :
            LET r == push(work_queue, k) IN
            IF Len(work_queue) = MAX_QUEUED_WORK_ITEMS
            THEN r = [queue |-> work_queue, ok |-> FALSE, key |-> k]
            ELSE r = [queue |-> Append(work_queue, k), ok |-> TRUE, key |-> "none"])
    /\ [][ /\ (Len(work_queue') > Len(work_queue))
                => (/\ Len(work_queue) < MAX_QUEUED_WORK_ITEMS
                    /\ \E k \in TrieKeys : work_queue' = Append(work_queue, k)
                    /\ pushed' = [ok |-> TRUE, key |-> "none"])
           /\ (pushed' # pushed /\ ~ pushed'.ok)
                => (/\ Len(work_queue) = MAX_QUEUED_WORK_ITEMS
                    /\ work_queue' = work_queue
                    /\ pushed'.key \in TrieKeys)
          ]_vars

\* A push was refused on a full queue while a worker walks a popped key.
C16_Witness ==
    /\ Len(work_queue) = MAX_QUEUED_WORK_ITEMS
    /\ ~ pushed.ok
    /\ pushed.key \in TrieKeys
    /\ \E w \in Workers : io_pc[w] = "walk"

\* C17: once stop() has been called, every started I/O thread eventually
\* leaves its loop, whatever the staging area and the queue hold.
C17_WorkersExitAfterStop ==
    \A w \in Workers :
        (stop_io /\ io_pc[w] # "not_started") ~> (io_pc[w] = "exited")

(***************************************************************************)
(* Properties of the accounts-data cache                                   *)
(***************************************************************************)

\* Two entries of the batch name the same account key.
HasDuplicateKey(batch) ==
    \E i, j \in 1 .. Len(batch) : i # j /\ batch[i].account_key = batch[j].account_key

\* An entry of the batch is longer than MAX_ACCOUNT_DATA_SIZE_BYTES.
HasLargeEntry(batch) == \E i \in 1 .. Len(batch) : batch[i].large

\* An entry of the batch carries a signature that does not verify.
HasInvalidSignature(batch) == \E i \in 1 .. Len(batch) : ~ verify_signature(batch[i])

\* The entries of the batch that are new with respect to snapshot s.
NewIn(s, batch) == {batch[i] : i \in {j \in 1 .. Len(batch) : is_new(s, batch[j])}}

\* What a commit stores for a verified entry d that is new in s: d, or for
\* the local signer's key the entry rebuilt at the next version.
Stored(s, d, now) ==
    IF s.local # NoLocal /\ d.account_key = s.local.signer
    THEN sign(s.local, d.version + 1, now)
    ELSE d

\* C3: in every published snapshot the key set of data is a subset of keys,
\* whatever the sequence of set_keys, set_local and insert, including a
\* set_keys between an insert's verification and its commit.
C3_DataKeysSubsetOfKeys == \A k \in Keys : inner.data[k] # NoData => k \in inner.keys

\* An insert returned after verifying an entry for k2 as new and inserting
\* nothing: set_keys dropped k2 between the verification and the commit.
C3_Witness ==
    /\ call["c1"].pc = "done"
    /\ call["c1"].inserted = {}
    /\ "k2" \notin inner.keys
    /\ inner.data["k2"] = NoData
    /\ \E d \in call["c1"].data : d.account_key = "k2"

\* C4: an insert whose batch has two entries with the same account_key (and
\* no oversized entry) returns SingleAccountMultipleData and an empty
\* inserted list, whatever the versions and whether or not the key is in keys.
C4_DuplicateKeysRejected ==
    \A c \in Calls :
        (call[c].pc = "done" /\ HasDuplicateKey(call[c].batch)
            /\ ~ HasLargeEntry(call[c].batch))
        => (call[c].err = "SingleAccountMultipleData" /\ call[c].inserted = {})

\* C5 as stated: an insert whose batch contains an entry with an invalid
\* signature returns InvalidSignature.
C5_InvalidSignatureReturned ==
    \A c \in Calls :
        (call[c].pc = "done" /\ HasInvalidSignature(call[c].batch))
        => call[c].err = "InvalidSignature"

\* C5 amended: when the batch has no oversized entry and no two entries of
\* the same account_key, and one of its entries that is new with respect to
\* the snapshot loaded by the verification has an invalid signature, the
\* verification ends with InvalidSignature and a verified set made of new
\* entries of the batch with valid signatures; the commit returns the
\* verification's error and changes the snapshot exactly at the keys of the
\* verified entries that are still new at the commit, storing and returning
\* each of them (for the local signer's key, its rebuild at version + 1).
C5_PartialCommit ==
    [][\A c \in Calls :
        /\ (/\ call[c].pc = "verify" /\ call'[c].pc = "commit"
            /\ ~ HasDuplicateKey(call[c].batch)
            /\ ~ HasLargeEntry(call[c].batch)
            /\ \E d \in NewIn(inner, call[c].batch) : ~ verify_signature(d))
           => /\ call'[c].err = "InvalidSignature"
              /\ call'[c].data \subseteq
                    {d \in NewIn(inner, call[c].batch) : verify_signature(d)}
        /\ (call[c].pc = "commit" /\ call'[c].pc = "done")
           => LET gained == {d \in call[c].data : is_new(inner, d)} IN
              /\ call'[c].err = call[c].err
              /\ call'[c].inserted = {Stored(inner, d, call'[c].now) : d \in gained}
              /\ \A k \in Keys :
                    IF \E d \in gained : d.account_key = k
                    THEN \E d \in gained : d.account_key = k
                                            /\ inner'.data[k] = Stored(inner, d, call'[c].now)
                    ELSE inner'.data[k] = inner.data[k]
      ]_vars

\* An insert of a two-entry batch returned InvalidSignature and the valid
\* entry for the other key, which the snapshot now holds.
C5_Witness ==
    /\ call["c1"].pc = "done"
    /\ call["c1"].err = "InvalidSignature"
    /\ Len(call["c1"].batch) = 2
    /\ HasInvalidSignature(call["c1"].batch)
    /\ \E d \in call["c1"].inserted : d = call["c1"].batch[1] /\ inner.data[d.account_key] = d

\* C6: in every published snapshot every entry of data is stored under its
\* own account_key and carries a signature that verifies against that key.
C6_DataIsSignedByItsKey ==
    \A k \in Keys :
        inner.data[k] # NoData
        => (inner.data[k].account_key = k /\ verify_signature(inner.data[k]))

\* The snapshot holds an entry signed by the local signer and an entry
\* received from a peer, after an insert that met a forged signature.
C6_Witness ==
    /\ inner.data["k1"] # NoData /\ inner.data["k1"].content = "local"
    /\ inner.data["k2"] # NoData /\ inner.data["k2"].content = "peer"
    /\ call["c1"].pc = "done"
    /\ call["c1"].err = "InvalidSignature"

\* C7: with insert calls running concurrently, the version stored for every
\* key of the published snapshot is the highest version ever accepted for
\* the key (since set_keys last dropped it).
C7_VersionIsMaxAccepted ==
    \A k \in Keys : inner.data[k] # NoData => inner.data[k].version = max_accepted[k]

\* Two concurrent inserts verified entries for k2; the newer one was
\* committed and the older one, committed from its stale verification, was
\* refused.
C7_Witness ==
    /\ call["c1"].pc = "done" /\ call["c2"].pc = "done"
    /\ call["c1"].inserted = {}
    /\ \E d \in call["c1"].data, e \in call["c2"].inserted :
        /\ d.account_key = "k2" /\ e.account_key = "k2"
        /\ d.version < e.version
        /\ inner.data["k2"] = e

\* C8: from one published snapshot to the next the version stored for a key
\* never decreases, and an entry is replaced only by one of a strictly
\* greater version.
C8_VersionsOnlyGrow ==
    [][\A k \in Keys :
        (inner.data[k] # NoData /\ inner'.data[k] # NoData)
        => /\ inner'.data[k].version >= inner.data[k].version
           /\ inner'.data[k] # inner.data[k]
                => inner'.data[k].version > inner.data[k].version
      ]_vars

\* An insert verified an entry for k1 as new and then found at its commit
\* an entry of the same version, stored by set_local meanwhile: it left it.
C8_Witness ==
    /\ call["c1"].pc = "done"
    /\ call["c1"].inserted = {}
    /\ "k1" \in inner.keys
    /\ \E d \in call["c1"].data :
        /\ d.account_key = "k1"
        /\ inner.data["k1"] # NoData
        /\ inner.data["k1"].version = d.version
        /\ inner.data["k1"].content = "local"


\* The scan of the batch meets an oversized entry and no entry before it
\* repeats the key of an earlier one.
LargeBeforeDuplicate(batch) ==
    \E i \in 1 .. Len(batch) :
        /\ batch[i].large
        /\ \A j, k \in 1 .. (i - 1) : j # k => batch[j].account_key # batch[k].account_key

\* The batch with every signature replaced by one that does not verify.
WithForgedSignatures(batch) ==
    [i \in 1 .. Len(batch) |-> [batch[i] EXCEPT !.signer = "forged"]]

\* C18: when the scan of the batch meets an oversized entry before a
\* duplicate key, the verification returns no data with DataTooLarge, its
\* result does not depend on any signature (none is verified), and the
\* call returns an empty inserted list and leaves the snapshot's data as
\* it was, even if earlier entries of the batch were new and valid.
C18_DataTooLargeAbortsBatch ==
    [][\A c \in Calls :
        /\ (/\ call[c].pc = "verify" /\ call'[c].pc = "commit"
            /\ LargeBeforeDuplicate(call[c].batch))
           => /\ call'[c].err = "DataTooLarge"
              /\ call'[c].data = {}
              /\ verify(inner, WithForgedSignatures(call[c].batch))
                    = {[data |-> {}, err |-> "DataTooLarge"]}
        /\ (/\ call[c].pc = "commit" /\ call'[c].pc = "done"
            /\ LargeBeforeDuplicate(call[c].batch))
           => /\ call'[c].err = "DataTooLarge"
              /\ call'[c].inserted = {}
              /\ inner'.data = inner.data
      ]_vars

\* An insert returned DataTooLarge and nothing inserted for a batch whose
\* first entry is new, with a signature that verifies, and whose second
\* entry is oversized.
C18_Witness ==
    /\ call["c1"].pc = "done"
    /\ call["c1"].err = "DataTooLarge"
    /\ call["c1"].inserted = {}
    /\ Len(call["c1"].batch) = 2
    /\ call["c1"].batch[2].large
    /\ verify_signature(call["c1"].batch[1])
    /\ is_new(inner, call["c1"].batch[1])


\* The call is about to verify the batch [v1, v2] of the scenario: v1 with
\* a valid signature for k1, v2 with an invalid signature for k2, against
\* a snapshot with keys = {k1, k2} and no data.
PartialCommitScenario(c) ==
    /\ call[c].pc = "verify"
    /\ inner.keys = {"k1", "k2"}
    /\ \A k \in Keys : inner.data[k] = NoData
    /\ Len(call[c].batch) = 2
    /\ call[c].batch[1].account_key = "k1" /\ verify_signature(call[c].batch[1])
    /\ call[c].batch[2].account_key = "k2" /\ ~ verify_signature(call[c].batch[2])
    /\ ~ HasLargeEntry(call[c].batch)

\* C19 as stated: in the scenario every execution of insert returns
\* ([v1], InvalidSignature) and publishes data[k1] = v1 and no entry for k2,
\* whatever order the parallel verifier visits the entries in.
C19_AlwaysReturnsV1 ==
    [][\A c \in Calls :
        (PartialCommitScenario(c) /\ call'[c].pc = "commit")
        => \A now \in Times :
           LET v1 == call[c].batch[1]
               u == insert_all(inner, call'[c].data, now)
           IN /\ call'[c].err = "InvalidSignature"
              /\ u.inserted = {v1}
              /\ u.snapshot.data["k1"] = v1
              /\ u.snapshot.data["k2"] = NoData
      ]_vars

\* C19 amended: in the scenario every execution of insert returns
\* InvalidSignature and publishes no entry for k2; v1 is verified, inserted
\* and published if the verifier visited it before it saw the failure of
\* v2, and otherwise the inserted list is empty and k1 has no entry.  What
\* is inserted for v1 is v1 itself, or its rebuild by the local signer
\* when k1 is the local signer's key.
C19_ReturnsV1OrNothing ==
    [][\A c \in Calls :
        (PartialCommitScenario(c) /\ call'[c].pc = "commit")
        => \A now \in Times :
           LET v1 == call[c].batch[1]
               u == insert_all(inner, call'[c].data, now)
           IN /\ call'[c].err = "InvalidSignature"
              /\ call'[c].data \in {{}, {v1}}
              /\ u.inserted = {Stored(inner, d, now) : d \in call'[c].data}
              /\ u.snapshot.data["k1"]
                    = (IF call'[c].data = {} THEN NoData ELSE Stored(inner, v1, now))
              /\ u.snapshot.data["k2"] = NoData
      ]_vars

\* The scenario ended with InvalidSignature and nothing inserted: the
\* verifier saw the failure of v2 before it had verified v1.
C19_Witness ==
    /\ call["c1"].pc = "done"
    /\ call["c1"].err = "InvalidSignature"
    /\ call["c1"].inserted = {}
    /\ Len(call["c1"].batch) = 2
    /\ call["c1"].batch[1].account_key = "k1" /\ verify_signature(call["c1"].batch[1])
    /\ call["c1"].batch[2].account_key = "k2" /\ ~ verify_signature(call["c1"].batch[2])
    /\ ~ HasLargeEntry(call["c1"].batch)
    /\ inner.keys = {"k1", "k2"}
    /\ \A k \in Keys : inner.data[k] = NoData


\* C20: when a local signer with key k is set and a verified entry d for k
\* that is new is committed, what is stored and returned is not d but an
\* entry made of local.data, signed by the local signer, with version
\* d.version + 1 and the time the clock returned; a new entry for another key is
\* stored and returned as it is.
C20_LocalRebuildOnOverride ==
    [][\A c \in Calls :
        (call[c].pc = "commit" /\ call'[c].pc = "done")
        => \A d \in call[c].data :
            is_new(inner, d)
            => IF inner.local # NoLocal /\ d.account_key = inner.local.signer
               THEN LET e == [account_key |-> d.account_key,
                              version |-> d.version + 1,
                              signer |-> inner.local.signer,
                              content |-> inner.local.data,
                              large |-> FALSE,
                              timestamp |-> call'[c].now]
                    IN /\ e # d
                       /\ e \in call'[c].inserted
                       /\ d \notin call'[c].inserted
                       /\ inner'.data[d.account_key] = e
               ELSE /\ d \in call'[c].inserted
                    /\ inner'.data[d.account_key] = d
      ]_vars

\* The local signer's key held version 1; an insert of a peer's version 2
\* for that key returned and stored the local data at version 3 with the
\* time of the clock, and the peer's entry for the other key as it came.
C20_Witness ==
    /\ call["c1"].pc = "done"
    /\ inner.local # NoLocal
    /\ \E d \in call["c1"].data, e \in call["c1"].inserted :
        /\ d.account_key = inner.local.signer /\ d.version = 2 /\ d.content = "peer"
        /\ e.account_key = d.account_key /\ e.version = 3 /\ e.content = "local"
        /\ e.timestamp = call["c1"].now /\ e.timestamp > 0
        /\ inner.data[e.account_key] = e
    /\ \E d \in call["c1"].inserted :
        d.account_key # inner.local.signer /\ d.content = "peer" /\ inner.data[d.account_key] = d

\* A step of Cache::set_local: no insert call moves and the key map stays.
SetLocalStep ==
    /\ call' = call
    /\ inner' # inner
    /\ inner'.keys_by_id = inner.keys_by_id

AllKeysById == [AccountIds -> SUBSET Keys]

\* C22: set_keys returns true iff the key map changed: given the stored map
\* it returns false and publishes nothing; otherwise it returns true and
\* the new snapshot has keys equal to the union of the key sets of the map
\* and data restricted to the entries whose key is in the new keys, each
\* retained entry unchanged.
C22_SetKeysRetainsData ==
    /\ [](\A kb \in AllKeysById :
            LET r == set_keys(inner, kb) IN
            /\ r.ok = (kb # inner.keys_by_id)
            /\ IF kb = inner.keys_by_id
               THEN r.snapshot = inner
               ELSE /\ r.snapshot.keys_by_id = kb
                    /\ r.snapshot.keys = {k \in Keys : \E a \in AccountIds : k \in kb[a]}
                    /\ \A k \in Keys :
                        r.snapshot.data[k]
                            = (IF k \in r.snapshot.keys THEN inner.data[k] ELSE NoData)
                    /\ r.snapshot.local = inner.local)
    /\ [][inner'.keys_by_id # inner.keys_by_id
            => /\ call' = call
               /\ inner'.keys = {k \in Keys : \E a \in AccountIds : k \in inner'.keys_by_id[a]}
               /\ \A k \in Keys :
                    inner'.data[k] = (IF k \in inner'.keys THEN inner.data[k] ELSE NoData)
               /\ inner'.local = inner.local
          ]_vars

\* An insert returned an entry for k1 and one for k2; set_keys then dropped
\* k1, whose entry is gone, and kept k2, whose entry is as it was inserted.
C22_Witness ==
    /\ call["c1"].pc = "done"
    /\ inner.keys = {"k2"}
    /\ inner.data["k1"] = NoData
    /\ \E d \in call["c1"].inserted : d.account_key = "k1"
    /\ \E d \in call["c1"].inserted : d.account_key = "k2" /\ inner.data["k2"] = d

\* A snapshot is the result of whole updates: its keys are those of its key
\* map, and its data has entries for keys of the key set only, each under
\* its own key.
Complete(s) ==
    /\ s.keys = flatten(s.keys_by_id)
    /\ \A k \in Keys : s.data[k] # NoData => (k \in s.keys /\ s.data[k].account_key = k)

\* C23: a snapshot a reader got from load() keeps its keys, data and local
\* through every later set_keys, set_local and insert; every snapshot that
\* can be loaded is the result of a whole number of updates (the whole of a
\* set_keys, of a set_local or of the commit of a batch); and the updates
\* are serialized, so that no committed update is lost: what an update
\* finds stored stays or is replaced by a higher version unless set_keys
\* drops its key.
C23_SnapshotsAtomicAndImmutable ==
    /\ [](Complete(inner) /\ Complete(loaded.snapshot))
    /\ [][ /\ (loaded.held /\ loaded'.snapshot # loaded.snapshot)
                => (loaded'.snapshot = inner /\ inner' = inner)
           /\ (inner' # inner)
                => \/ \E kb \in KeysByIdChoices :
                        set_keys(inner, kb).ok /\ inner' = set_keys(inner, kb).snapshot
                   \/ \E l \in LocalDatas, now \in Times :
                        inner' = set_local(inner, l, now).snapshot
                   \/ \E c \in Calls, now \in Times :
                        /\ call[c].pc = "commit"
                        /\ inner' = insert_all(inner, call[c].data, now).snapshot
           /\ \A k \in Keys :
                (inner.data[k] # NoData /\ k \in inner'.keys)
                => \/ inner'.data[k] = inner.data[k]
                   \/ inner'.data[k].version > inner.data[k].version
           /\ \A c \in Calls :
                (call[c].pc = "commit" /\ call'[c].pc = "done")
                => \A d \in call[c].data :
                    d.account_key \in inner.keys
                    => inner'.data[d.account_key].version >= d.version
         ]_vars

\* The reader holds a snapshot with no data; since its load an insert has
\* committed a batch of two entries and set_local has replaced one of them,
\* and the published snapshot holds both keys.
C23_Witness ==
    /\ loaded.held
    /\ loaded.snapshot.keys = {"k1", "k2"}
    /\ \A k \in Keys : loaded.snapshot.data[k] = NoData
    /\ call["c1"].pc = "done"
    /\ Cardinality(call["c1"].inserted) = 2
    /\ inner.data["k2"] \in call["c1"].inserted
    /\ inner.data["k1"].content = "local"
    /\ inner.data["k1"] \notin call["c1"].inserted

\* A batch insert takes whole: entries of regular size, one per account
\* key, each with a signature that verifies.
ValidBatch(batch) ==
    /\ ~ HasLargeEntry(batch)
    /\ ~ HasInvalidSignature(batch)
    /\ ~ HasDuplicateKey(batch)

\* C24: inserting what the cache knows is harmless and idempotent: when
\* insert runs twice in a row on the same valid batch, the second call
\* returns no error and an empty inserted list and leaves the data as the
\* first call left it; and an insert of a valid batch with no new entry
\* returns no error, inserts nothing and leaves the snapshot as it is.
C24_InsertIdempotent ==
    /\ [](\A c \in Calls :
            (call[c].pc = "verify" /\ ValidBatch(call[c].batch))
            => \A r1 \in verify(inner, call[c].batch), now1 \in Times :
                LET u1 == insert_all(inner, r1.data, now1) IN
                /\ r1.err = "None"
                /\ \A r2 \in verify(u1.snapshot, call[c].batch), now2 \in Times :
                    LET u2 == insert_all(u1.snapshot, r2.data, now2) IN
                    /\ r2.err = "None"
                    /\ r2.data = {}
                    /\ u2.inserted = {}
                    /\ u2.snapshot.data = u1.snapshot.data)
    /\ [][\A c \in Calls :
            /\ (/\ call[c].pc = "verify" /\ call'[c].pc = "commit"
                /\ ValidBatch(call[c].batch)
                /\ NewIn(inner, call[c].batch) = {})
               => (call'[c].err = "None" /\ call'[c].data = {})
            /\ (/\ call[c].pc = "commit" /\ call'[c].pc = "done"
                /\ call[c].data = {})
               => (call'[c].inserted = {} /\ call'[c].err = call[c].err /\ inner' = inner)
         ]_vars

\* An insert of a batch of two entries that the snapshot already holds
\* returned no error and nothing inserted.
C24_Witness ==
    /\ call["c1"].pc = "done"
    /\ Len(call["c1"].batch) = 2
    /\ ValidBatch(call["c1"].batch)
    /\ call["c1"].err = "None"
    /\ call["c1"].inserted = {}
    /\ \A i \in 1 .. 2 : inner.data[call["c1"].batch[i].account_key] = call["c1"].batch[i]

(***************************************************************************)
(* Claims on the parameter table                                           *)
(***************************************************************************)

\* The diff names, for each of its keys, the value the table holds.
Agrees(table, d) == \A k \in Parameters : d[k].named => d[k].before = table[k]

\* The keys of the diff whose old value disagrees with the table.
Disagreeing(table, d) == {k \in Parameters : d[k].named /\ d[k].before # table[k]}

\* C25: when every entry of the diff names as old value the table's current
\* value for its key (none when the key is absent), apply_diff succeeds, and
\* the resulting table maps each key of the diff to its new value, has the
\* key removed when the diff gives no new value, and keeps every key the diff
\* does not name; as this holds of every application, from every table that
\* earlier diffs produced, a sequence of such diffs composes these effects.
C25_MatchingDiffApplies ==
    [][Agrees(parameters, diff') =>
          /\ apply_result' = OkResult
          /\ \A k \in Parameters :
                parameters'[k] = IF diff'[k].named THEN diff'[k].after
                                 ELSE parameters[k]]_vars

\* A diff was applied that removed one key and changed the value of another
\* one.
C25_Witness ==
    /\ apply_result = OkResult
    /\ \E k, j \in Parameters :
        /\ diff[k].named /\ diff[k].before # NoValue /\ diff[k].after = NoValue
        /\ parameters[k] = NoValue
        /\ diff[j].named /\ diff[j].before # NoValue /\ diff[j].after # NoValue
        /\ diff[j].before # diff[j].after
        /\ parameters[j] = diff[j].after

\* C26: apply_diff rejects a diff with an entry whose old value disagrees
\* with the table, and the error is about such an entry:
\* NoOldValueExists(key, diff old) when the table has no value for the key
\* but the diff names one, OldValueExists(key, table value) when the table
\* has a value but the diff names none, WrongOldValue(key, table value,
\* diff old) when both exist and differ.
C26_DisagreeingDiffRejected ==
    [][Disagreeing(parameters, diff') # {} =>
          \E k \in Disagreeing(parameters, diff') :
              apply_result' =
                  IF parameters[k] = NoValue
                  THEN NoOldValueExists(k, diff'[k].before)
                  ELSE IF diff'[k].before = NoValue
                  THEN OldValueExists(k, parameters[k])
                  ELSE WrongOldValue(k, parameters[k], diff'[k].before)]_vars

\* A diff was rejected for naming an old value other than the table's.
C26_Witness ==
    /\ apply_result.kind = "WrongOldValue"
    /\ apply_result.first = parameters[apply_result.key]
    /\ apply_result.second = diff[apply_result.key].before
    /\ apply_result.first # apply_result.second
    /\ apply_result.first # NoValue /\ apply_result.second # NoValue

(***************************************************************************)
(* Claims on the reservation and on the waiting of workers                 *)
(***************************************************************************)

\* C27: a worker obtains SlotReserved for a hash only in a state where the
\* hash is absent from the shard cache and from the staging area: from its
\* shard cache miss to its reservation the worker holds S, so the hash is
\* still missing from the shard cache when the slot is reserved.
C27_ReservedOnlyWhenAbsentFromBoth ==
    [][\A w \in Workers :
          /\ pc[w] = "reserve" =>
                /\ shard_cache_guard = w
                /\ shard_cache[hash[w]] = NoBytes
          /\ (pc[w] = "reserve" /\ prefetch_state'[w] = "SlotReserved") =>
                /\ shard_cache[hash[w]] = NoBytes
                /\ slots[hash[w]] = NoSlot
                /\ shard_cache'[hash[w]] = NoBytes
                /\ slots'[hash[w]] = PendingPrefetch]_vars

\* A worker reserved the slot of a hash while the main thread was about to
\* insert a value into the shard cache.
C27_Witness ==
    \E w \in Workers :
        /\ pc[w] = "fetch"
        /\ prefetch_state[w] = "SlotReserved"
        /\ slots[hash[w]] = PendingPrefetch
        /\ shard_cache[hash[w]] = NoBytes
        /\ pc[MainThread] = "promote"
        /\ hash[MainThread] = hash[w]

\* C28: every call of blocking_get eventually returns: a worker that waits
\* on a pending slot eventually leaves the poll loop, also when the store
\* read of the thread that reserved the slot fails.
C28_BlockingGetReturns ==
    \A w \in Workers : (pc[w] = "blocking_get") ~> (pc[w] # "blocking_get")

\* C29: no worker holds S or P while it reads the backing store, and none
\* while it yields before blocking_get or sleeps between two polls of it:
\* both locks are released before the store read and before blocking_get,
\* and the staging lock is released before every sleep.
C29_NoLockHeldWhileBlocked ==
    \A w \in Workers :
        lock_pc[w] \in {"store_read", "blocking_get"} =>
            /\ cache_guard # w
            /\ staging_guard # w

\* A worker reads the store and the other one waits in blocking_get while
\* the main thread holds both locks.
C29_Witness ==
    /\ \E w, v \in Workers :
        /\ lock_pc[w] = "store_read"
        /\ lock_pc[v] = "blocking_get"
    /\ cache_guard = MainThread
    /\ staging_guard = MainThread

\* What get_and_set_if_empty does to the staging area st for each of its
\* results.
FrameOfGetAndSet(st, key, set_if_empty) ==
    LET r == get_and_set_if_empty(st, key, set_if_empty) IN
    CASE r.result = "SlotReserved" ->
            /\ st.slots[key] = NoSlot
            /\ r.staging.slots = [st.slots EXCEPT ![key] = set_if_empty]
            /\ r.staging.size_bytes = st.size_bytes + PREFETCH_RESERVED_BYTES_PER_SLOT
      [] r.result = "Prefetched" ->
            /\ st.slots[key] = Done(r.value)
            /\ r.staging = st
      [] r.result = "Pending" ->
            /\ st.slots[key] \in {PendingPrefetch, PendingFetch}
            /\ r.staging = st
      [] r.result = "MemoryLimitReached" -> r.staging = st
      [] OTHER -> FALSE

\* C30: get_and_set_if_empty changes the staging area only when it returns
\* SlotReserved, and then it adds the supplied slot for the hash and one
\* quantum to size_bytes; on Prefetched(b) the slot is Done(b), on Pending
\* the slot is PendingPrefetch or PendingFetch, and in these cases and on
\* MemoryLimitReached slots and size_bytes are as before.  It holds of the
\* function on every staging area the threads produce, and of the steps in
\* which a worker or the main thread calls it.
C30_OnlySlotReservedChangesStaging ==
    /\ [](\A h \in Hashes : \A s \in {PendingPrefetch, PendingFetch} :
            FrameOfGetAndSet(Staging, h, s))
    /\ [][ /\ \A w \in Workers :
               (pc[w] = "reserve" /\ pc'[w] # "reserve"
                    /\ prefetch_state'[w] # "SlotReserved")
                   => (slots' = slots /\ size_bytes' = size_bytes)
           /\ (pc[MainThread] = "idle" /\ pc'[MainThread] # "idle"
                    /\ prefetch_state'[MainThread] # "SlotReserved")
                   => (slots' = slots /\ size_bytes' = size_bytes)
         ]_vars

\* A worker got Pending on a slot another thread reserved and the main
\* thread got MemoryLimitReached on another hash: the staging area holds the
\* one reservation and its quantum.
C30_Witness ==
    \E w \in Workers :
        /\ pc[w] = "blocking_get"
        /\ prefetch_state[w] = "Pending"
        /\ slots[hash[w]] \in {PendingPrefetch, PendingFetch}
        /\ prefetch_state[MainThread] = "MemoryLimitReached"
        /\ slots[hash[MainThread]] = NoSlot
        /\ size_bytes = PREFETCH_RESERVED_BYTES_PER_SLOT

(***************************************************************************)
(* Claims on the outcomes of a worker's retrieve_raw_bytes                 *)
(***************************************************************************)

\* The staging area after the step.
StagingAfter == [slots |-> slots', size_bytes |-> size_bytes']

\* The main thread ends a read of h that it fetched itself under its own
\* PendingFetch slot, while worker w waits for h after a Pending.
MainPromotesFor(w) ==
    /\ pc[MainThread] = "promote" /\ pc'[MainThread] = "idle"
    /\ hash[MainThread] = hash[w]
    /\ slots[hash[w]] = PendingFetch
    /\ pc[w] = "blocking_get"

\* What a worker's wait and second look return: Some gives the bytes of the
\* Done slot, none is followed by the second look, whose hit returns the
\* bytes of the shard cache and whose miss returns "Prefetcher failed".
WaitOutcome(w) ==
    /\ (pc[w] = "blocking_get" /\ pc'[w] = "idle") =>
            /\ slots[hash[w]].kind = "Done"
            /\ result'[w] = "Ok" /\ value'[w] = slots[hash[w]].value
    /\ (pc[w] = "recheck" /\ pc'[w] = "idle") =>
            IF shard_cache[hash[w]] # NoBytes
            THEN result'[w] = "Ok" /\ value'[w] = shard_cache[hash[w]]
            ELSE result'[w] = "PrefetcherFailed"
    /\ MainPromotesFor(w) =>
            /\ blocking_get(StagingAfter, hash[w]).found = "None"
            /\ shard_cache'[hash[w]] = store[hash[w]]
            /\ shard_cache'[hash[w]] # NoBytes

\* C31 as stated: after the main thread's promotion of h the worker's
\* blocking_get returns none and its second look returns the bytes, and the
\* worker returns "Prefetcher failed" only if h is absent from the staging
\* area and from the shard cache at the second look.
C31_FailsOnlyIfAbsentFromBoth ==
    [][\A w \in Workers :
          /\ WaitOutcome(w)
          /\ (pc[w] = "recheck" /\ result'[w] = "PrefetcherFailed") =>
                /\ shard_cache[hash[w]] = NoBytes
                /\ slots[hash[w]] = NoSlot]_vars

\* C31 amended: after the main thread's promotion of h, blocking_get finds
\* no slot and the shard cache holds the bytes of h; a worker whose
\* blocking_get returned none (the slot was absent at that poll) returns the
\* bytes of the shard cache when its second look hits, and "Prefetcher
\* failed" exactly when h is absent from the shard cache at the second look,
\* whatever the staging area holds by then.
C31_FailsOnlyIfAbsentFromCache ==
    [][\A w \in Workers :
          /\ WaitOutcome(w)
          /\ (pc[w] = "blocking_get" /\ pc'[w] = "recheck") =>
                slots[hash[w]] = NoSlot
          /\ (pc[w] = "recheck" /\ result'[w] = "PrefetcherFailed") =>
                shard_cache[hash[w]] = NoBytes]_vars

\* A worker that got Pending found no slot at its poll and is about to find
\* the promoted bytes in the shard cache.
C31_Witness ==
    \E w \in Workers :
        /\ pc[w] = "recheck"
        /\ prefetch_state[w] = "Pending"
        /\ slots[hash[w]] = NoSlot
        /\ shard_cache[hash[w]] = store[hash[w]]
        /\ shard_cache[hash[w]] # NoBytes
        /\ result[MainThread] = "Ok" /\ hash[MainThread] = hash[w]

\* C32: when a worker's reservation is refused with MemoryLimitReached,
\* retrieve_raw_bytes returns "Prefetcher failed" at once: no store read
\* follows, and the staging area, the shard cache and the store are as
\* before.  The I/O thread swallows the error, whatever error it is: its walk
\* ends, it goes back to the test of its loop and, unless stopped, to the pop
\* of the next queued key.
C32_MemoryLimitAbandonsKey ==
    [][\A w \in Workers :
          /\ (pc[w] = "reserve" /\ pc'[w] # "reserve" /\ OverLimit(hash[w])) =>
                /\ pc'[w] = "idle"
                /\ result'[w] = "PrefetcherFailed"
                /\ slots' = slots /\ size_bytes' = size_bytes
                /\ shard_cache' = shard_cache /\ store' = store
                /\ io_pc'[w] = io_pc[w]
          /\ (io_pc[w] = "walk" /\ pc[w] = "idle"
                /\ result[w] \notin {"None", "Ok"} /\ io_pc'[w] # io_pc[w]) =>
                /\ io_pc'[w] = "check_stop"
                /\ work_queue' = work_queue
                /\ slots' = slots /\ size_bytes' = size_bytes
          /\ (io_pc[w] = "check_stop" /\ io_pc'[w] # io_pc[w]) =>
                io_pc'[w] = IF stop_io THEN "exited" ELSE "pop"
          /\ (io_pc[w] = "pop" /\ work_queue # <<>> /\ io_pc'[w] # io_pc[w]) =>
                /\ io_pc'[w] = "walk"
                /\ work_queue' = Tail(work_queue)]_vars

\* An I/O thread whose walk was refused a slot by the full staging area has
\* gone back to its loop and is about to pop the next key.
C32_Witness ==
    \E w \in Workers :
        /\ io_pc[w] = "pop"
        /\ work_queue # <<>>
        /\ result[w] = "PrefetcherFailed"
        /\ OverLimit(hash[w])
        /\ shard_cache[hash[w]] = NoBytes

\* The PendingPrefetch slot of h has no worker left that reads h from the
\* store under a reservation.
Orphaned(h) ==
    /\ slots[h] = PendingPrefetch
    /\ \A w \in Workers : ~ (pc[w] = "fetch" /\ hash[w] = h)

\* C33: a worker whose store read fails (missing record or I/O error)
\* returns the error and leaves the staging area as it is, without
\* insert_fetched and without release; the slot it leaves behind stays
\* PendingPrefetch, with its quantum counted in size_bytes, on every step
\* other than the main thread's release of that hash.
C33_FailedReadKeepsReservation ==
    [][/\ \A w \in Workers :
            (pc[w] = "fetch" /\ pc'[w] = "idle"
                /\ result'[w] \in {"StorageInternalError", "TrieNodeMissing"})
            => (slots' = slots /\ size_bytes' = size_bytes)
       /\ \A h \in Hashes :
            Orphaned(h) =>
                /\ size_bytes >= SumCharges(slots, Hashes)
                /\ size_bytes >= PREFETCH_RESERVED_BYTES_PER_SLOT
                /\ \/ /\ slots'[h] = PendingPrefetch
                      /\ size_bytes' >= PREFETCH_RESERVED_BYTES_PER_SLOT
                   \/ /\ pc[MainThread] = "promote" /\ hash[MainThread] = h
                      /\ pc'[MainThread] = "idle"
                      /\ slots'[h] = NoSlot]_vars

\* A worker's store read of h has failed, the worker is back, and the slot
\* of h is still PendingPrefetch with its quantum in size_bytes.
C33_Witness ==
    \E w \in Workers :
        /\ pc[w] = "idle"
        /\ result[w] \in {"StorageInternalError", "TrieNodeMissing"}
        /\ Orphaned(hash[w])
        /\ size_bytes = PREFETCH_RESERVED_BYTES_PER_SLOT

(***************************************************************************)
(* Claims on the arithmetic of size_bytes                                  *)
(***************************************************************************)

\* Worker w ends its store read with insert_fetched.
InsertsFetched(w) ==
    /\ pc[w] = "fetch" /\ pc'[w] = "idle"
    /\ result'[w] = "Ok"

\* C34: insert_fetched never increases size_bytes: it replaces the quantum
\* of the reservation by the length of the bytes, which is at most the
\* quantum for every value of the store, so size_bytes stays within the
\* limit after the insert_fetched that follows a reservation.
C34_InsertFetchedNeverIncreases ==
    [][\A w \in Workers :
          InsertsFetched(w) =>
              /\ store[hash[w]].len <= PREFETCH_RESERVED_BYTES_PER_SLOT
              /\ size_bytes' = (size_bytes - PREFETCH_RESERVED_BYTES_PER_SLOT)
                                    + store[hash[w]].len
              /\ size_bytes' <= size_bytes
              /\ size_bytes' <= MAX_PREFETCH_STAGING_MEMORY
              /\ slots'[hash[w]] = Done(store[hash[w]])]_vars

\* A worker has staged a value of the largest size and the staging area is
\* filled to its limit.
C34_Witness ==
    \E w \in Workers :
        /\ pc[w] = "idle" /\ result[w] = "Ok"
        /\ slots[hash[w]] = Done(value[w])
        /\ value[w].len = PREFETCH_RESERVED_BYTES_PER_SLOT
        /\ size_bytes = MAX_PREFETCH_STAGING_MEMORY

\* C35: no staging operation subtracts more from size_bytes than its
\* current value: size_bytes holds at least the quantum when a worker is
\* about to call insert_fetched, and at least what release subtracts for
\* the slot it drops (the quantum of a PendingFetch, the length of a Done
\* value) when the main thread is about to call release, also when the
\* main thread releases a slot that a worker is still fetching.
C35_NoUnderflow ==
    /\ \A w \in Workers :
            pc[w] = "fetch" => size_bytes >= PREFETCH_RESERVED_BYTES_PER_SLOT
    /\ pc[MainThread] = "promote" =>
            LET dropped == slots[hash[MainThread]] IN
            /\ dropped.kind = "Done" => size_bytes >= dropped.value.len
            /\ dropped.kind = "PendingFetch" =>
                    size_bytes >= PREFETCH_RESERVED_BYTES_PER_SLOT
    /\ size_bytes >= SumCharges(slots, Hashes)
    /\ size_bytes >= 0

\* The main thread has released the slot of a hash that a worker is still
\* fetching, and the worker is about to call insert_fetched.
C35_Witness ==
    \E w \in Workers :
        /\ pc[w] = "fetch"
        /\ slots[hash[w]] = NoSlot
        /\ shard_cache[hash[w]] # NoBytes
        /\ store[hash[w]] # NoBytes
        /\ size_bytes = PREFETCH_RESERVED_BYTES_PER_SLOT

(***************************************************************************)
(* Claims on the self-override at the end of the version counter           *)
(***************************************************************************)

\* Call c is about to commit new entry d for the local signer's key.
SelfOverride(c, d) ==
    /\ call[c].pc = "commit"
    /\ d \in call[c].data
    /\ is_new(inner, d)
    /\ inner.local # NoLocal
    /\ d.account_key = inner.local.signer

\* C36: the entry produced by a self-override has a version strictly
\* greater than the version of the incoming entry and than every version
\* stored before for the local key, for every incoming version of the
\* counter's width: the commit of such an entry returns and publishes a
\* rebuilt entry of a greater version.
C36_OverrideOvertakes ==
    [][\A d \in EdgeEntries :
          (SelfOverride("c1", d) /\ call'["c1"].pc # "commit") =>
              /\ call'["c1"].pc = "done"
              /\ inner'.data[d.account_key] \in call'["c1"].inserted
              /\ inner'.data[d.account_key].signer = inner.local.signer
              /\ inner'.data[d.account_key].content = inner.local.data
              /\ inner'.data[d.account_key].version > d.version
              /\ inner'.data[d.account_key].version > max_accepted[d.account_key]
              /\ inner.data[d.account_key] # NoData =>
                    inner'.data[d.account_key].version
                        > inner.data[d.account_key].version]_vars

(***************************************************************************)
(* Claims on the entries that verify drops                                 *)
(***************************************************************************)

\* The batch without the entries that are not new in snapshot s.
OnlyNew(s, batch) == SelectSeq(batch, LAMBDA d : is_new(s, d))

\* The batch with the signature of every entry that is not new in snapshot
\* s turned from one that verifies into one that does not, and back.
OtherSignatures(s, batch) ==
    [i \in 1 .. Len(batch) |->
        IF is_new(s, batch[i]) THEN batch[i]
        ELSE [batch[i] EXCEPT !.signer = IF @ = batch[i].account_key
                                         THEN "forged" ELSE batch[i].account_key]]

\* No entry of the batch that is not new in s ends the scan of fn verify:
\* none is oversized and none repeats the key of a new entry before it.
DroppedPassScan(s, batch) ==
    \A i \in 1 .. Len(batch) :
        ~ is_new(s, batch[i]) =>
            /\ ~ batch[i].large
            /\ \A j \in 1 .. (i - 1) :
                    is_new(s, batch[j]) => batch[j].account_key # batch[i].account_key

\* Call c runs fn verify in this step.
Verifies(c) == call[c].pc = "verify" /\ call'[c].pc = "commit"

\* Call c runs the update of fn insert in this step.
Commits(c) == call[c].pc = "commit" /\ call'[c].pc = "done"

\* C37 as stated: an entry that is not new in the snapshot loaded by the
\* call produces no error and is dropped silently: the call has the results
\* it has for the batch without such entries.
C37_DroppedEntriesProduceNoError ==
    [][Verifies("c1") =>
            verify(inner, call["c1"].batch)
                = verify(inner, OnlyNew(inner, call["c1"].batch))]_vars

\* C37: insert never verifies the signature of an entry that is not new in
\* the snapshot loaded at the start of the call: the results of the call
\* are the same whatever the signature of such an entry, the entry is not
\* among the verified data, and the commit changes data only at the keys of
\* verified entries.  Such an entry is dropped silently (the call has the
\* results it has for the batch without it) when it passes the checks that
\* precede the filter: it is not oversized and does not repeat the key of a
\* new entry before it.
C37_DroppedEntriesAreNotVerified ==
    [][/\ Verifies("c1") =>
            LET batch == call["c1"].batch IN
            /\ verify(inner, batch) = verify(inner, OtherSignatures(inner, batch))
            /\ \A i \in 1 .. Len(batch) :
                    ~ is_new(inner, batch[i]) => batch[i] \notin call'["c1"].data
            /\ DroppedPassScan(inner, batch) =>
                    verify(inner, batch) = verify(inner, OnlyNew(inner, batch))
       /\ Commits("c1") =>
            \A k \in Keys :
                inner'.data[k] # inner.data[k] =>
                    \E d \in call["c1"].data : d.account_key = k]_vars

\* The call has verified a batch of a new entry and an entry with a forged
\* signature that is not new, without an error, and is about to commit.
C37_Witness ==
    /\ call["c1"].pc = "commit"
    /\ call["c1"].err = "None"
    /\ call["c1"].data # {}
    /\ \E i \in 1 .. Len(call["c1"].batch) :
        /\ ~ is_new(inner, call["c1"].batch[i])
        /\ call["c1"].batch[i].signer = "forged"
        /\ call["c1"].batch[i] \notin call["c1"].data

(***************************************************************************)
(* Claims on what insert returns and what it leaves                        *)
(***************************************************************************)

\* The keys of the values in a returned list.
KeysOf(inserted) == {v.account_key : v \in inserted}

\* C38: the list returned by insert is exactly the change it made: every
\* returned value is the entry of its key in the snapshot the call
\* published, no key has two values in the list, every key that is not in
\* the list has the entry
\* it had in the snapshot the commit started from, and keys_by_id, keys and
\* local are as they were.
C38_ReturnedListIsTheChange ==
    [][Commits("c1") =>
            LET inserted == call'["c1"].inserted IN
            /\ \A v \in inserted : inner'.data[v.account_key] = v
            /\ \A v \in inserted, w \in inserted :
                    v.account_key = w.account_key => v = w
            /\ \A k \in Keys \ KeysOf(inserted) : inner'.data[k] = inner.data[k]
            /\ inner'.keys = inner.keys
            /\ inner'.keys_by_id = inner.keys_by_id
            /\ inner'.local = inner.local]_vars

\* An insert of two entries has returned a rebuilt entry for the local
\* signer's key alone, and the other key has kept the entry it had.
C38_Witness ==
    /\ call["c1"].pc = "done"
    /\ Len(call["c1"].batch) = 2
    /\ inner.local # NoLocal
    /\ KeysOf(call["c1"].inserted) = {inner.local.signer}
    /\ \E v \in call["c1"].inserted :
            v.content = inner.local.data /\ inner.data[v.account_key] = v
    /\ \E k \in Keys \ KeysOf(call["c1"].inserted) : inner.data[k] # NoData

(***************************************************************************)
(* Claims on the entry stored under the local signer's key                 *)
(***************************************************************************)

\* Entry e is what the local signer signs for the current local record.
BuiltFromLocal(s, e) ==
    /\ e.account_key = s.local.signer
    /\ e.signer = s.local.signer
    /\ e.content = s.local.data
    /\ verify_signature(e)

\* C39: in every published snapshot where local is set and data has an
\* entry for the local signer's key, that entry was built from the current
\* local.data and signed by the local signer: no sequence of insert,
\* set_local and set_keys leaves a peer's entry under the local key.
C39_LocalKeyHoldsLocalData ==
    (inner.local # NoLocal /\ inner.data[inner.local.signer] # NoData)
        => BuiltFromLocal(inner, inner.data[inner.local.signer])

\* The key of the local signer held a peer's entry before the local record
\* was set to its second data; an insert of a newer entry a peer signed
\* with that key has then committed, and the key holds the local data.
C39_Witness ==
    /\ call["c1"].pc = "done"
    /\ inner.local # NoLocal
    /\ inner.local.data = "later"
    /\ \E d \in call["c1"].data :
        /\ d.account_key = inner.local.signer
        /\ d.content = "peer"
        /\ inner.data[d.account_key] \in call["c1"].inserted
        /\ inner.data[d.account_key].version = d.version + 1
        /\ BuiltFromLocal(inner, inner.data[d.account_key])
    /\ \E k \in Keys \ {inner.local.signer} :
        inner.data[k] # NoData /\ inner.data[k].content = "peer"

(***************************************************************************)
(* Claims on a diff that is rejected part of the way                       *)
(***************************************************************************)

\* The table after the entries of diff d for the keys below key have been
\* applied to it and nothing else.
AppliedBelow(table, d, key) ==
    [k \in Parameters |-> IF k < key /\ d[k].named THEN d[k].after ELSE table[k]]

\* C40: apply_diff is not atomic: it goes through the entries of the diff in
\* ascending order of their keys, and when it returns an error at a key the
\* table is the original one with the diff's entries of all smaller keys
\* applied and every other key as it was (nothing is rolled back); the key
\* of the error is the smallest one whose old value disagrees with the
\* table the entries before it have left.
C40_ErrorLeavesSmallerKeysApplied ==
    [][apply_result' # OkResult =>
          LET key == apply_result'.key IN
          /\ key \in Parameters
          /\ diff'[key].named
          /\ diff'[key].before # parameters[key]
          /\ \A k \in Parameters :
                (k < key /\ diff'[k].named) => diff'[k].before = parameters[k]
          /\ parameters' = AppliedBelow(parameters, diff', key)]_vars

\* A diff was rejected at the second key after its entry for the first key
\* had replaced that key's value, and the table holds the new value.
C40_Witness ==
    /\ apply_result # OkResult
    /\ apply_result.key = 2
    /\ diff[1].named
    /\ diff[1].before # diff[1].after
    /\ diff[1].after # NoValue
    /\ parameters[1] = diff[1].after
    /\ diff[2].named

=============================================================================
